---- MODULE Spec2Model ----
(***************************************************************************)
(* Commit decomposition pipeline of chrono-code-hackathon/backend.         *)
(*                                                                         *)
(* The specifications of this module:                                      *)
(*   SpecIngest   the Repository Ingestion Gate against the relational     *)
(*                store (app/services/commits.py, supabase_service.py);    *)
(*   SpecAnalyze  the Commit Analyzer and its batch entry point            *)
(*                (app/services/gemini.py, analysis_controller.py);        *)
(*   SpecRequest  the /analyze-commits endpoint, which chains the two      *)
(*                (app/controllers/analysis_controller.py).                *)
(* External collaborators (GitHub, the store's transport, the generative   *)
(* model) answer nondeterministically: every operation draws their         *)
(* answers, faults included, with \E.                                      *)
(***************************************************************************)
EXTENDS Integers, Sequences, FiniteSets, TLC

(* ------------------------------ bounds -------------------------------- *)

\* Commit SHAs are 1..MaxSha.
MaxSha == 2

\* settings.BATCH_SIZE (page size of the commit listing, group size of
\* store_commits and of the batch orchestrator), scaled down from its
\* default of 50 so that several pages and groups occur.
BATCH_SIZE == 2

Shas == 1..MaxSha

\* Two repositories: a repository and its fork.
Repos == {"r1", "r2"}

VARIABLES
    configured,     \* settings.SUPABASE_URL/KEY are set: get_client() succeeds
    upstream,       \* GitHub: repository -> set of SHAs it lists
    repositories,   \* store table repositories: set of ids
    commits,        \* store table commits: set of rows [sha, repo_id]
    last,           \* record of the last completed ingestion call
    filesOf,        \* commit SHA -> the files of that commit (fixed per commit)
    cache,          \* gemini._commit_analysis_cache: SHA -> cached result object
    task,           \* the get_commit_analysis coroutines of the running request
    req,            \* the analysis request in progress, or the last one finished
    hist,           \* per SHA: calls begun so far and what the first one returned
    nreq,           \* number of analysis requests started
    commit_analyses,\* store table commit_analyses: the rows in insertion order
    collections,    \* vector store: collection name -> documents inserted
    response,       \* what the last finished endpoint request answered
    batch_size,     \* settings.BATCH_SIZE as the batch orchestrator reads it
    batches,        \* the groups the orchestrator cut list_commits into
    svc             \* record of the last direct call of a storage or index service

ingestVars == <<configured, upstream, repositories, commits, last>>

anVars == <<filesOf, cache, task, req, hist, nreq>>

epVars == <<commit_analyses, collections, response>>

svcVars == <<batch_size, batches, svc>>

vars == <<ingestVars, anVars, epVars, svcVars>>

(* ----------------------------- helpers -------------------------------- *)

Min(a, b) == IF a < b THEN a ELSE b

MaxOf(S) == CHOOSE x \in S : \A y \in S : y <= x

RECURSIVE Listing(_)
\* The commit listing GitHub returns for a set of SHAs: newest (highest)
\* first, as a sequence without repetition.
Listing(S) ==
    IF S = {} THEN <<>>
    ELSE <<MaxOf(S)>> \o Listing(S \ {MaxOf(S)})

Range(s) == {s[i] : i \in 1..Len(s)}

ShasOf(rows) == {row.sha : row \in rows}

ShasOfRepo(rows, r) == {row.sha : row \in {x \in rows : x.repo_id = r}}

(* ------------------------- the relational store ----------------------- *)

\* supabase.table('commits').insert(commit_data).execute(): the table's
\* unique key is sha.  fault: the insert raises for another reason.
\* Outcome "inserted": result.data is the inserted row.
DbInsertCommitNoUnique(rows, sha, r, fault) ==
    IF fault THEN [rows |-> rows, outcome |-> "error"]
    ELSE [rows |-> rows \cup {[sha |-> sha, repo_id |-> r]}, outcome |-> "inserted"]

DbInsertCommit(rows, sha, r, fault) ==
    IF fault THEN [rows |-> rows, outcome |-> "error"]
    ELSE IF sha \in ShasOf(rows) THEN [rows |-> rows, outcome |-> "duplicate"]
    ELSE [rows |-> rows \cup {[sha |-> sha, repo_id |-> r]}, outcome |-> "inserted"]

\* The accumulators of store_commits.
EmptyAcc(rows) ==
    [rows |-> rows, inserted |-> <<>>, existing |-> <<>>, errors |-> {}]

RECURSIVE StoreBatch(_, _, _, _)
\* The inner loop of store_commits over one batch (lines 58-69).
StoreBatch(acc, batch, r, insertFail) ==
    IF batch = <<>> THEN acc
    ELSE
        LET sha == Head(batch)
            res == DbInsertCommit(acc.rows, sha, r, sha \in insertFail)
            acc2 ==
                IF res.outcome = "inserted"
                THEN [acc EXCEPT !.rows = res.rows,
                                 !.inserted = Append(acc.inserted, sha)]
                ELSE IF res.outcome = "duplicate"
                THEN [acc EXCEPT !.existing = Append(acc.existing, sha)]
                ELSE [acc EXCEPT !.errors = acc.errors \cup {sha}]
        IN StoreBatch(acc2, Tail(batch), r, insertFail)

RECURSIVE StoreLoop(_, _, _, _, _)
\* The outer loop of store_commits: for i in range(0, len, batch_size).
StoreLoop(acc, list, i, r, insertFail) ==
    IF i > Len(list) THEN acc
    ELSE StoreLoop(
            StoreBatch(acc, SubSeq(list, i, Min(i + BATCH_SIZE - 1, Len(list))),
                       r, insertFail),
            list, i + BATCH_SIZE, r, insertFail)

NoStoreResult ==
    [called |-> FALSE, kind |-> "none", inserted |-> <<>>, existing |-> <<>>]

StoreCommitsRollingBack(rows, list, r, clientOk, insertFail) ==
    IF ~clientOk
    THEN [rows |-> rows,
          result |-> [called |-> TRUE, kind |-> "error",
                      inserted |-> <<>>, existing |-> <<>>]]
    ELSE
        LET acc == StoreLoop(EmptyAcc(rows), list, 1, r, insertFail)
        IN IF acc.errors # {}
           THEN [rows |-> rows,
                 result |-> [called |-> TRUE, kind |-> "error",
                             inserted |-> <<>>, existing |-> <<>>]]
           ELSE [rows |-> acc.rows,
                 result |-> [called |-> TRUE, kind |-> "ok",
                             inserted |-> acc.inserted,
                             existing |-> acc.existing]]

\* store_commits(commits): the rows afterwards and the dictionary returned.
\* kind "error" is a dictionary with only the "error" key; kind "ok" carries
\* "inserted_commits" and "existing_commits".
StoreCommits(rows, list, r, clientOk, insertFail) ==
    IF ~clientOk
    THEN [rows |-> rows,
          result |-> [called |-> TRUE, kind |-> "error",
                      inserted |-> <<>>, existing |-> <<>>]]
    ELSE
        LET acc == StoreLoop(EmptyAcc(rows), list, 1, r, insertFail)
        IN IF acc.errors # {}
           THEN [rows |-> acc.rows,
                 result |-> [called |-> TRUE, kind |-> "error",
                             inserted |-> <<>>, existing |-> <<>>]]
           ELSE [rows |-> acc.rows,
                 result |-> [called |-> TRUE, kind |-> "ok",
                             inserted |-> acc.inserted,
                             existing |-> acc.existing]]

\* store_repo([repo]): the table afterwards and the dictionary returned.
\* "stored": the success dictionary; "duplicate_key": {"error", "code"};
\* "error": {"error"} alone (no client, or the insert raised otherwise).
StoreRepoNoDuplicateCode(repos, r, clientOk, fault) ==
    IF ~clientOk \/ fault THEN [repos |-> repos, result |-> "error"]
    ELSE IF r \in repos THEN [repos |-> repos, result |-> "error"]
    ELSE [repos |-> repos \cup {r}, result |-> "stored"]

StoreRepo(repos, r, clientOk, fault) ==
    IF ~clientOk \/ fault THEN [repos |-> repos, result |-> "error"]
    ELSE IF r \in repos THEN [repos |-> repos, result |-> "duplicate_key"]
    ELSE [repos |-> repos \cup {r}, result |-> "stored"]

(* ----------------------- the commit listing loop ---------------------- *)

\* Page fetches a listing needs when none fails: a page shorter than
\* BATCH_SIZE (an empty one included) ends the loop.
PagesNeeded(listing) == (Len(listing) \div BATCH_SIZE) + 1

PageOf(listing, page) ==
    SubSeq(listing, (page - 1) * BATCH_SIZE + 1, Min(page * BATCH_SIZE, Len(listing)))

ConvertedUntilFailure(data, skip, detailFail) ==
    SelectSeq(data, LAMBDA s : /\ s \notin skip
                               /\ \A k \in DOMAIN data :
                                     (data[k] \in detailFail \ skip) =>
                                         \E j \in 1..(k - 1) : data[j] = s)

\* The `for commit_data in commits_data` loop over one page: the commits
\* appended to commit_list, a commit whose detail fetch or conversion fails
\* being passed over (`continue`).
Converted(data, skip, detailFail) ==
    SelectSeq(data, LAMBDA s : s \notin skip /\ s \notin detailFail)

RECURSIVE PageLoop(_, _, _, _, _, _)
\* The `while True` loop over the pages of the commit listing, with the
\* per-commit detail fetch inside it.  badPage: the page whose fetch fails
\* (0: none), how: "status" (a non-200 answer, the loop breaks) or "raise"
\* (the client raises, the function's outer handler takes over).  skip: the
\* SHAs passed over before the detail fetch (incremental ingestion only).
\* detailFail: the SHAs whose detail fetch or conversion fails (`continue`).
PageLoop(listing, page, badPage, how, skip, detailFail) ==
    IF page = badPage
    THEN [fetches |-> 1, details |-> {}, list |-> <<>>, raised |-> (how = "raise")]
    ELSE
        LET data == PageOf(listing, page)
            Wanted(s) == s \notin skip
            here == [fetches |-> 1,
                     details |-> {s \in Range(data) : Wanted(s)},
                     list |-> Converted(data, skip, detailFail),
                     raised |-> FALSE]
        IN IF data = <<>> \/ Len(data) < BATCH_SIZE THEN here
           ELSE
               LET rest == PageLoop(listing, page + 1, badPage, how, skip, detailFail)
               IN [fetches |-> 1 + rest.fetches,
                   details |-> here.details \cup rest.details,
                   list |-> here.list \o rest.list,
                   raised |-> rest.raised]

\* The SHAs listed by the pages fetched before page badPage.
ListedBefore(listing, badPage) ==
    IF badPage = 0 THEN Range(listing)
    ELSE Range(SubSeq(listing, 1, Min((badPage - 1) * BATCH_SIZE, Len(listing))))

(* ------------------------- full ingestion ----------------------------- *)

\* The answers of the collaborators to one ingestion call.
NoFaults ==
    [repoOk |-> TRUE, clientOk |-> TRUE, regFault |-> FALSE, queryFault |-> FALSE,
     badPage |-> 0, how |-> "status", detailFail |-> {}, insertFail |-> {}]

FullReturnDespiteError(list, sc) ==
    IF sc.kind = "ok" /\ Len(list) = Len(sc.existing) THEN <<>> ELSE list

\* The decision of get_repository_commits on the dictionary store_commits
\* returned (lines 170-178).
FullReturn(list, sc) ==
    IF sc.kind = "ok" /\ Len(list) = Len(sc.existing) THEN <<>>
    ELSE IF sc.kind = "ok" THEN list
    ELSE <<>>

AlreadyAnalyzedNever(result) == FALSE

\* The test on store_repo's dictionary that raises
\* AlreadyAnalyzedRepositoryError: "error" present and code "duplicate_key".
AlreadyAnalyzed(result) == result = "duplicate_key"

FetchAndStoreCommitsUnregistering(none, reg, rows, up, r, in) ==
    LET loop == PageLoop(Listing(up), 1, in.badPage, in.how, {}, in.detailFail)
        registered == [none EXCEPT !.repos = reg.repos, !.reg = reg.result,
                                   !.listFetches = loop.fetches,
                                   !.details = loop.details,
                                   !.list = loop.list]
        st == StoreCommits(rows, loop.list, r, in.clientOk, in.insertFail)
    IN
    IF loop.raised \/ loop.list = <<>> THEN [registered EXCEPT !.repos = @ \ {r}]
    ELSE IF st.result.kind = "error"
    THEN [registered EXCEPT !.repos = @ \ {r}, !.rows = st.rows, !.sc = st.result]
    ELSE [registered EXCEPT !.rows = st.rows, !.sc = st.result,
                            !.ret = FullReturn(loop.list, st.result)]

\* get_repository_commits from "Prepare API URL for commits" on, for a
\* call whose registration was answered with reg and did not raise: the
\* listing loop, store_commits and the decision on its dictionary.  none is
\* the record of a call that did nothing.
FetchAndStoreCommits(none, reg, rows, up, r, in) ==
    LET loop == PageLoop(Listing(up), 1, in.badPage, in.how, {}, in.detailFail)
        registered == [none EXCEPT !.repos = reg.repos, !.reg = reg.result,
                                   !.listFetches = loop.fetches,
                                   !.details = loop.details,
                                   !.list = loop.list]
    IN
    IF loop.raised \/ loop.list = <<>> THEN registered
    ELSE
        LET st == StoreCommits(rows, loop.list, r, in.clientOk, in.insertFail)
        IN [registered EXCEPT !.rows = st.rows, !.sc = st.result,
                              !.ret = FullReturn(loop.list, st.result)]

\* get_repository_commits(repo_url) for repository r under the answers in.
\* outcome "already_analyzed": AlreadyAnalyzedRepositoryError is raised;
\* outcome "returned": ret is the list returned.
GetRepositoryCommits(repos, rows, up, r, in) ==
    LET none == [repos |-> repos, rows |-> rows, outcome |-> "returned", ret |-> <<>>,
                 reg |-> "none", listFetches |-> 0, details |-> {},
                 list |-> <<>>, sc |-> NoStoreResult]
    IN
    IF ~in.repoOk THEN none
    ELSE
        LET reg == StoreRepo(repos, r, in.clientOk, in.regFault)
        IN
        IF AlreadyAnalyzed(reg.result)
        THEN [none EXCEPT !.outcome = "already_analyzed", !.reg = reg.result]
        ELSE FetchAndStoreCommits(none, reg, rows, up, r, in)

(* ---------------------- incremental ingestion ------------------------- *)

\* The decision of get_new_repository_commits on the dictionary
\* store_commits returned (lines 343-348).
IncrReturn(list, sc) == IF sc.kind = "ok" THEN list ELSE <<>>

\* existing_commit_shas: the SHAs stored for this repository (line 237-238).
ExistingShas(rows, r) == ShasOfRepo(rows, r)

\* get_new_repository_commits from the listing loop on, with
\* existing_commit_shas read before as skip: the pages are walked, the
\* unseen commits fetched, stored and returned.
FetchAndStoreNew(none, skip, rows, up, r, in) ==
    LET loop == PageLoop(Listing(up), 1, in.badPage, in.how, skip, in.detailFail)
        fetched == [none EXCEPT !.listFetches = loop.fetches,
                                !.details = loop.details,
                                !.list = loop.list]
    IN
    IF loop.raised \/ loop.list = <<>> THEN fetched
    ELSE
        LET st == StoreCommits(rows, loop.list, r, in.clientOk, in.insertFail)
        IN [fetched EXCEPT !.rows = st.rows, !.sc = st.result,
                           !.ret = IncrReturn(loop.list, st.result)]

\* get_new_repository_commits(repo_url) for repository r.
GetNewRepositoryCommits(repos, rows, up, r, in) ==
    LET none == [repos |-> repos, rows |-> rows, outcome |-> "returned", ret |-> <<>>,
                 reg |-> "none", listFetches |-> 0, details |-> {},
                 list |-> <<>>, sc |-> NoStoreResult]
    IN
    IF ~in.repoOk \/ ~in.clientOk \/ in.queryFault THEN none
    ELSE FetchAndStoreNew(none, ExistingShas(rows, r), rows, up, r, in)

(* --------------------- SpecIngest: the ingestion gate ----------------- *)

\* What a call record keeps of the collaborators' answers.
Kept(in) ==
    [repoOk |-> in.repoOk, clientOk |-> in.clientOk, regFault |-> in.regFault,
     insertFail |-> in.insertFail, badPage |-> in.badPage, detailFail |-> in.detailFail]

NoCall ==
    [op |-> "none", repo |-> "r1", in |-> Kept(NoFaults), outcome |-> "returned",
     ret |-> <<>>, reg |-> "none", listFetches |-> 0, details |-> {},
     list |-> <<>>, sc |-> NoStoreResult, preRepos |-> {}, pre |-> {}, up |-> {}]

CallRecord(op, r, in, res) ==
    [op |-> op, repo |-> r, in |-> Kept(in), outcome |-> res.outcome, ret |-> res.ret,
     reg |-> res.reg, listFetches |-> res.listFetches, details |-> res.details,
     list |-> res.list, sc |-> res.sc, preRepos |-> repositories, pre |-> commits, up |-> upstream[r]]

\* The process starts against an empty store; its store credentials are
\* set or not.
StoreEmpty ==
    /\ configured \in BOOLEAN
    /\ upstream = [r \in Repos |-> {}]
    /\ repositories = {}
    /\ commits = {}
    /\ last = NoCall

\* A commit is pushed to a repository on GitHub.  SHA k is the k-th commit
\* of one history: a repository and its fork (or mirror) each list a prefix
\* of it, so the two share the SHAs both have reached.
Push(r) ==
    /\ Cardinality(upstream[r]) < MaxSha
    /\ upstream' = [upstream EXCEPT ![r] = @ \cup {Cardinality(@) + 1}]
    /\ last' = NoCall
    /\ UNCHANGED <<configured, repositories, commits, anVars, epVars, svcVars>>

\* The collaborators' answers to one call, drawn in the order the call
\* asks for them; an answer the call never asks for keeps its NoFaults value.
\* A non-200 answer for an empty page ends the loop as the empty page would,
\* so it is drawn for non-empty pages only.
ListAnswers(listing, skip) ==
    {in \in [badPage : 0..PagesNeeded(listing), how : {"status", "raise"},
             detailFail : SUBSET (Range(listing) \ skip)] :
        /\ in.badPage = 0 => in.how = "status"
        /\ in.how = "raise" => in.detailFail = {}
        /\ (in.badPage > 0 /\ in.how = "status") => PageOf(listing, in.badPage) # <<>>
        /\ in.detailFail \subseteq ListedBefore(listing, in.badPage)}

FullIngest(r) ==
    \E repoOk \in BOOLEAN :
    \E clientOk \in {configured} :
    \E regFault \in (IF repoOk /\ clientOk THEN BOOLEAN ELSE {FALSE}) :
    \E fetches \in {repoOk /\ StoreRepo(repositories, r, clientOk, regFault).result
                                 # "duplicate_key"} :
    \E listing \in {Listing(upstream[r])} :
    \E la \in (IF fetches THEN ListAnswers(listing, {})
               ELSE {[badPage |-> 0, how |-> "status", detailFail |-> {}]}) :
    \E insertFail \in
        (IF fetches /\ clientOk /\ la.how # "raise"
         THEN SUBSET (ListedBefore(listing, la.badPage) \ la.detailFail)
         ELSE {{}}) :
    \E in \in {[repoOk |-> repoOk, clientOk |-> clientOk, regFault |-> regFault,
                queryFault |-> FALSE, badPage |-> la.badPage, how |-> la.how,
                detailFail |-> la.detailFail, insertFail |-> insertFail]} :
    \E res \in {GetRepositoryCommits(repositories, commits, upstream[r], r, in)} :
        /\ repositories' = res.repos
        /\ commits' = res.rows
        /\ last' = CallRecord("full", r, in, res)
        /\ UNCHANGED <<configured, upstream, anVars, epVars, svcVars>>

IncrIngest(r) ==
    \E repoOk \in BOOLEAN :
    \E clientOk \in {configured} :
    \E queryFault \in (IF repoOk /\ clientOk THEN BOOLEAN ELSE {FALSE}) :
    \E fetches \in {repoOk /\ clientOk /\ ~queryFault} :
    \E listing \in {Listing(upstream[r])} :
    \E skip \in {ExistingShas(commits, r)} :
    \E la \in (IF fetches THEN ListAnswers(listing, skip)
               ELSE {[badPage |-> 0, how |-> "status", detailFail |-> {}]}) :
    \E insertFail \in
        (IF fetches /\ la.how # "raise"
         THEN SUBSET ((ListedBefore(listing, la.badPage) \ skip) \ la.detailFail)
         ELSE {{}}) :
    \E in \in {[repoOk |-> repoOk, clientOk |-> clientOk, regFault |-> FALSE,
                queryFault |-> queryFault, badPage |-> la.badPage, how |-> la.how,
                detailFail |-> la.detailFail, insertFail |-> insertFail]} :
    \E res \in {GetNewRepositoryCommits(repositories, commits, upstream[r], r, in)} :
        /\ repositories' = res.repos
        /\ commits' = res.rows
        /\ last' = CallRecord("incr", r, in, res)
        /\ UNCHANGED <<configured, upstream, anVars, epVars, svcVars>>

(* --------------------------- commit analyzer -------------------------- *)

\* settings.retries: the attempt ceiling of the tenacity decorators.
retries == 3

\* A model answer holds at most MaxSubs sub-commits.
MaxSubs == 1

\* A commit has at most MaxFiles files.
MaxFiles == 1

\* analyze_commits_batch is called with at most MaxBatch commits.
MaxBatch == 2

\* At most MaxRequests analysis requests are started in one process.
MaxRequests == 2

FileNames == 1..MaxFiles

\* The empty commit_sha a model may leave in a sub-commit.
NoSha == 0

ModelShas == {NoSha} \cup Shas

\* Result objects are told apart by the call that built them.
NoOid == 0

\* No result object (Python None).
NoResult == [oid |-> NoOid, analysis |-> <<>>]

\* The analysis lists the structured-output model can produce: up to
\* MaxSubs sub-commits, the i-th titled i, each with whatever commit_sha
\* the model chose to write, possibly none at all.
ModelAnalyses ==
    UNION {{[i \in 1..n |-> [title |-> i, commit_sha |-> m[i], files |-> {}]] :
                m \in [1..n -> ModelShas]} : n \in 0..MaxSubs}

\* One model call raises, returns None, or returns a SubCommitAnalysisList.
ModelAnswers ==
    {[kind |-> "raise", analysis |-> <<>>], [kind |-> "none", analysis |-> <<>>]}
        \cup {[kind |-> "result", analysis |-> a] : a \in ModelAnalyses}

is_empty_analysisNoneOnly(ans) == ans.kind = "none"

is_empty_analysis(ans) == ans.kind = "none" \/ Len(ans.analysis) = 0

\* model_commit_with_fallback: the fallback model answers only when the
\* primary model raised.
ModelCommitWithFallback(primary, fallback) ==
    IF primary.kind = "raise" THEN fallback ELSE primary

StampKeepingModelValue(analysis, sha) == analysis

\* "Set commit_sha for each subcommit".
Stamp(analysis, sha) ==
    [i \in 1..Len(analysis) |-> [analysis[i] EXCEPT !.commit_sha = sha]]

ShouldRetryNever(attempt) == FALSE

\* stop_after_attempt(settings.retries): a failed attempt is followed by
\* another one while fewer than retries attempts were made.
ShouldRetry(attempt) == attempt < retries

\* The outcome of get_subcommit_file_analysis for one sub-commit, after its
\* own retries: it raised, it returned None (the direct fallback call
\* answered None), or it returned a list of the commit's files.
FileAnswers(sha) ==
    {[kind |-> "raise", files |-> {}], [kind |-> "none", files |-> {}]}
        \cup {[kind |-> "files", files |-> F] : F \in SUBSET filesOf[sha]}

\* "Assign files to each subcommit": by index, an exception leaves the
\* sub-commit as it was.
AssignFiles(analysis, fo) ==
    [i \in 1..Len(analysis) |->
        IF fo[i].kind = "files" THEN [analysis[i] EXCEPT !.files = fo[i].files]
        ELSE analysis[i]]

\* One get_commit_analysis coroutine.  attempt counts the attempts started,
\* inv the invocations of the commit-analysis client, hit tells a return
\* from the cache.  History kept with it: ord, the ordinal of this call
\* among the calls for its SHA; afterFirst, the first of those calls had
\* returned when this one was made; onlyRaises, every answer this call got
\* was an exception; onlyEmpty, every attempt of this call ended on an empty
\* model result; clean, every collaborator of this call answered with a
\* usable result.
NewTask(sha, ord, afterFirst) ==
    [sha |-> sha, pc |-> "begin", attempt |-> 0, inv |-> 0, hit |-> FALSE, ord |-> ord,
     afterFirst |-> afterFirst, onlyRaises |-> TRUE, onlyEmpty |-> TRUE, clean |-> TRUE,
     result |-> NoResult]

Settled(t) == t.pc \in {"returned", "raised"}

FailNeverSettling(t) ==
    IF ShouldRetry(t.attempt)
    THEN [t EXCEPT !.pc = "begin", !.clean = FALSE, !.result = NoResult]
    ELSE [t EXCEPT !.pc = "waiting", !.clean = FALSE, !.result = NoResult]

\* An attempt ended with an exception: tenacity starts another attempt or
\* re-raises to the caller.
Fail(t) ==
    IF ShouldRetry(t.attempt)
    THEN [t EXCEPT !.pc = "begin", !.clean = FALSE, !.result = NoResult]
    ELSE [t EXCEPT !.pc = "raised", !.clean = FALSE, !.result = NoResult]

EvaluateKeepingEmpty(t, ans) ==
    [t EXCEPT !.onlyRaises = FALSE, !.onlyEmpty = FALSE,
              !.result = [oid |-> t.ord, analysis |-> Stamp(ans.analysis, t.sha)],
              !.pc = IF filesOf[t.sha] # {} THEN "files" ELSE "returned"]

\* gemini.py lines 76-105 for a model answer that is not an exception.
Evaluate(t, ans) ==
    IF is_empty_analysis(ans)
    THEN Fail([t EXCEPT !.onlyRaises = FALSE])
    ELSE [t EXCEPT !.onlyRaises = FALSE, !.onlyEmpty = FALSE,
                   !.result = [oid |-> t.ord,
                               analysis |-> Stamp(ans.analysis, t.sha)],
                   !.pc = IF filesOf[t.sha] # {} THEN "files" ELSE "returned"]

NoHist == [calls |-> 0, firstOid |-> NoOid]

\* Coroutine i moves to t2; when that is its return, the result is written
\* to the cache under the commit's SHA ("Cache the result before
\* returning"; a cache hit returns the cached object itself).
MoveTask(i, t2) ==
    /\ task' = [task EXCEPT ![i] = t2]
    /\ cache' = IF t2.pc = "returned" THEN [cache EXCEPT ![t2.sha] = t2.result] ELSE cache
    /\ hist' = IF t2.pc = "returned" /\ t2.ord = 1
               THEN [hist EXCEPT ![t2.sha] = [@ EXCEPT !.firstOid = t2.result.oid]]
               ELSE hist
    /\ UNCHANGED <<ingestVars, epVars, filesOf, req, nreq>>

Move(i, t2) == MoveTask(i, t2) /\ UNCHANGED svcVars

CacheGetNothing(c, sha) == NoResult

\* _commit_analysis_cache[commit.sha], NoResult when the SHA is not in it.
CacheGet(c, sha) == c[sha]

\* An attempt starts: the cache check, then the call of the model chain.
Begin(i) ==
    /\ task[i].pc = "begin"
    /\ \E t \in {[task[i] EXCEPT !.attempt = @ + 1]} :
       \E cached \in {CacheGet(cache, t.sha)} :
        IF cached # NoResult
        THEN Move(i, [t EXCEPT !.pc = "returned", !.hit = TRUE, !.onlyEmpty = FALSE,
                               !.result = cached])
        ELSE Move(i, [t EXCEPT !.pc = "model", !.inv = @ + 1])

\* An attempt ended with an exception raised by a model call or by the
\* assignment of the files.
FailRaising(t) == Fail([t EXCEPT !.onlyEmpty = FALSE])

\* What the code does with an answer ans of the chain or of the direct
\* fallback call.
Answered(i, ans) ==
    CASE ans.kind = "raise" -> Move(i, FailRaising(task[i]))
      [] ans.kind = "none" /\ task[i].pc # "direct" ->
           Move(i, [task[i] EXCEPT !.pc = "direct", !.inv = @ + 1,
                                   !.onlyRaises = FALSE, !.clean = FALSE])
      [] OTHER -> Move(i, Evaluate(task[i], ans))

\* model_commit_with_fallback.ainvoke: the primary model answers.  The
\* chain hands its answer on unless it is an exception, in which case it
\* invokes the fallback model.
PrimaryAnswer(i) ==
    /\ task[i].pc = "model"
    /\ \E primary \in ModelAnswers :
          IF primary.kind = "raise"
          THEN Move(i, [task[i] EXCEPT !.pc = "fallback"])
          ELSE Answered(i, ModelCommitWithFallback(primary, primary))

\* The fallback model of the chain answers after the primary raised.
FallbackAnswer(i) ==
    /\ task[i].pc = "fallback"
    /\ \E fallback \in ModelAnswers :
          Answered(i, ModelCommitWithFallback([kind |-> "raise", analysis |-> <<>>],
                                              fallback))

\* The chain answered None and the fallback model, called directly, answers.
DirectAnswer(i) ==
    /\ task[i].pc = "direct"
    /\ \E ans \in ModelAnswers : Answered(i, ans)

\* The gathered file analyses fo of the sub-commits are in; a None among
\* them makes the assignment loop raise, which ends the attempt.
AfterFiles(t, fo) ==
    IF \E k \in DOMAIN fo : fo[k].kind = "none"
    THEN FailRaising(t)
    ELSE [t EXCEPT !.pc = "returned", !.result.analysis = AssignFiles(@, fo)]

FilesDone(i) ==
    /\ task[i].pc = "files"
    /\ \E fo \in [1..Len(task[i].result.analysis) -> FileAnswers(task[i].sha)] :
          Move(i, AfterFiles(task[i], fo))

(* -------------------------- analysis requests ------------------------- *)

\* failed is history: the number of the request's coroutines that raised.
NoReq ==
    [kind |-> "none", status |-> "idle", commits |-> <<>>, raised |-> FALSE, ret |-> <<>>,
     failed |-> 0]

\* The coroutines created for a list of commits, one per commit.
Spawn(list) ==
    [i \in 1..Len(list) |->
        NewTask(list[i],
                hist[list[i]].calls + Cardinality({j \in 1..i : list[j] = list[i]}),
                hist[list[i]].firstOid # NoOid)]

Began(list) ==
    [s \in Shas |-> [hist[s] EXCEPT !.calls = @ + Cardinality({j \in 1..Len(list) : list[j] = s})]]

CanStart == req.status # "running" /\ nreq < MaxRequests

Start(kind, list) ==
    /\ req' = [NoReq EXCEPT !.kind = kind, !.status = "running", !.commits = list]
    /\ task' = Spawn(list)
    /\ hist' = Began(list)
    /\ nreq' = nreq + 1
    /\ UNCHANGED <<ingestVars, epVars, svcVars, filesOf, cache>>

\* A caller awaits get_commit_analysis(commit).
StartGetCommitAnalysis(s) ==
    /\ CanStart
    /\ Start("get_commit_analysis", <<s>>)

\* A caller awaits analyze_commit(commit): a commit without files is
\* answered at once.
StartAnalyzeCommit(s) ==
    /\ CanStart
    /\ IF filesOf[s] # {}
       THEN Start("analyze_commit", <<s>>)
       ELSE /\ req' = [NoReq EXCEPT !.kind = "analyze_commit", !.status = "done",
                                     !.commits = <<s>>]
            /\ task' = <<>>
            /\ nreq' = nreq + 1
            /\ UNCHANGED <<ingestVars, epVars, svcVars, filesOf, cache, hist>>

BatchLists == UNION {[1..n -> Shas] : n \in 1..MaxBatch}

\* A caller awaits analyze_commits_batch(commits).
StartBatch(list) ==
    /\ CanStart
    /\ Start("batch", list)

\* "Process results": the analyses of the coroutines that returned, in the
\* order of the commits.
RECURSIVE ProcessResultsBackwards(_, _)

ProcessResultsBackwards(results, i) ==
    IF i > Len(results) THEN <<>>
    ELSE ProcessResultsBackwards(results, i + 1)
         \o (IF results[i].pc = "raised" THEN <<>>
             ELSE IF results[i].result # NoResult /\ results[i].result.analysis # <<>>
                  THEN results[i].result.analysis
                  ELSE <<>>)

RECURSIVE ProcessResults(_, _)

ProcessResults(results, i) ==
    IF i > Len(results) THEN <<>>
    ELSE (IF results[i].pc = "raised" THEN <<>>
          ELSE IF results[i].result # NoResult /\ results[i].result.analysis # <<>>
               THEN results[i].result.analysis
               ELSE <<>>)
         \o ProcessResults(results, i + 1)

AnalyzeCommitsBatchPropagating(results) ==
    IF \E i \in DOMAIN results : results[i].pc = "raised"
    THEN [raised |-> TRUE, ret |-> <<>>]
    ELSE [raised |-> FALSE, ret |-> ProcessResults(results, 1)]

\* What analyze_commits_batch hands to its caller once
\* asyncio.gather(*tasks, return_exceptions=True) is through.
AnalyzeCommitsBatch(results) ==
    [raised |-> FALSE, ret |-> ProcessResults(results, 1)]

\* What analyze_commit hands to its caller.
AnalyzeCommit(t) ==
    [raised |-> FALSE,
     ret |-> IF t.pc = "returned" /\ t.result # NoResult /\ t.result.analysis # <<>>
             THEN t.result.analysis ELSE <<>>]

\* What a direct call of get_commit_analysis hands to its caller.
GetCommitAnalysis(t) ==
    [raised |-> t.pc = "raised",
     ret |-> IF t.pc = "returned" THEN t.result.analysis ELSE <<>>]

Raised(results) == Cardinality({i \in DOMAIN results : results[i].pc = "raised"})

GatherFirstException(tasks) ==
    \/ \A i \in DOMAIN tasks : Settled(tasks[i])
    \/ \E i \in DOMAIN tasks : tasks[i].pc = "raised"

\* await asyncio.gather(*tasks, return_exceptions=True) is through: every
\* awaitable has returned or raised, an exception being one more result.
GatherDone(tasks) == \A i \in DOMAIN tasks : Settled(tasks[i])

\* Every coroutine of the request has settled and the request returns.
\* The coroutines' records stay readable until the next request starts.
Finish ==
    /\ req.status = "running"
    /\ req.kind # "analyze_commits"
    /\ GatherDone(task)
    /\ \E out \in {CASE req.kind = "batch" -> AnalyzeCommitsBatch(task)
                     [] req.kind = "analyze_commit" -> AnalyzeCommit(task[1])
                     [] OTHER -> GetCommitAnalysis(task[1])} :
          req' = [req EXCEPT !.status = "done", !.raised = out.raised, !.ret = out.ret,
                            !.failed = Raised(task)]
    /\ UNCHANGED <<ingestVars, epVars, svcVars, filesOf, cache, task, hist, nreq>>

(* -------------------- the /analyze-commits endpoint ------------------- *)

NoResponse == [status |-> "none"]

RECURSIVE FirstPerCommit(_, _)

FirstPerCommit(analyses, seen) ==
    IF analyses = <<>> THEN <<>>
    ELSE IF Head(analyses).commit_sha \in seen THEN FirstPerCommit(Tail(analyses), seen)
    ELSE <<Head(analyses)>>
            \o FirstPerCommit(Tail(analyses), seen \cup {Head(analyses).commit_sha})

StoreCommitAnalysesUnread(table, analyses, clientOk, fault) ==
    IF ~clientOk \/ fault THEN [table |-> table, kind |-> "error", inserted |-> <<>>]
    ELSE [table |-> table \o analyses, kind |-> "ok", inserted |-> analyses]

StoreCommitAnalysesOnePerCommit(table, analyses, clientOk, fault) ==
    IF ~clientOk \/ fault THEN [table |-> table, kind |-> "error", inserted |-> <<>>]
    ELSE
        LET new == FirstPerCommit(analyses, {table[k].commit_sha : k \in DOMAIN table})
        IN [table |-> table \o new, kind |-> "ok", inserted |-> new]

\* store_commit_analyses(analyses): the rows whose commit_sha has no row
\* yet are inserted in one statement; without a client, or when the query
\* or the insert raises, the dictionary holds "error" and nothing is stored.
StoreCommitAnalyses(table, analyses, clientOk, fault) ==
    IF ~clientOk \/ fault THEN [table |-> table, kind |-> "error", inserted |-> <<>>]
    ELSE
        LET existing == {table[k].commit_sha : k \in DOMAIN table}
            new == SelectSeq(analyses, LAMBDA a : a.commit_sha \notin existing)
        IN [table |-> table \o new, kind |-> "ok", inserted |-> new]

\* get_all_commit_analyses(repository_url) has a "repo_id": the repository
\* is registered, commits are stored under its id, and analyses are stored
\* for some of them.
HasRepoId(repos, rows, table, r, clientOk, fault) ==
    /\ clientOk /\ ~fault
    /\ r \in repos
    /\ \E k \in DOMAIN table : table[k].commit_sha \in ShasOfRepo(rows, r)

\* get_text_embedding([text]): the vector of the text, a list of floats
\* (0 stands for a zero component, 1 for any other), or [] when the
\* embedding call raised.
Embeddings == {<<>>, <<0, 1>>, <<1, 1>>}

\* Document(vector=...): pydantic takes a list of floats for vector.
DocumentAccepts(vector) == vector.type = "list"

\* Identifiers carry their Python type: 5 and "5" are different values.
Str(x) == [x EXCEPT !.type = "str"]

\* Document(subcommit_id=...): pydantic takes a str for subcommit_id.
DocumentAcceptsId(id) == id.type = "str"

\* analysis.id: the identity of a sub-commit analysis, one per commit and
\* title.
AnalysisId(analysis) == [type |-> "str", v |-> <<analysis.commit_sha, analysis.title>>]

\* process_analysis(analysis): None without an embedding or when its first
\* component is falsy; else the Document is built from embedding[0], one
\* component of the vector, and the constructor's validation raises.
ProcessAnalysis(analysis, embedding) ==
    IF embedding = <<>> \/ embedding[1] = 0 THEN [kind |-> "none"]
    ELSE IF /\ DocumentAccepts([type |-> "float", value |-> embedding[1]])
            /\ DocumentAcceptsId(AnalysisId(analysis))
         THEN [kind |-> "document", vector |-> embedding[1],
               subcommit_id |-> AnalysisId(analysis),
               metadata |-> [subcommit_id |-> AnalysisId(analysis),
                             commit_sha |-> analysis.commit_sha,
                             title |-> analysis.title]]
         ELSE [kind |-> "raise"]

\* The ids of the entries of a collection.
IdsOf(entries) == {entries[k].id : k \in DOMAIN entries}

\* What collection.add keeps of one Document: embeddings, metadatas, ids.
\* subcommit_id is history: the field of the Document the entry came from.
Entry(id, doc) ==
    [id |-> id, vector |-> doc.vector, metadata |-> doc.metadata,
     subcommit_id |-> doc.subcommit_id]

InsertDocumentPositionalIds(colls, documents, name, fault) ==
    IF fault \/ \E i, j \in DOMAIN documents :
                    i # j /\ Str(documents[i].subcommit_id) = Str(documents[j].subcommit_id)
    THEN [colls |-> colls, kind |-> "error"]
    ELSE LET added == [i \in DOMAIN documents |->
                          Entry([type |-> "str", v |-> Len(colls[name]) + i], documents[i])]
         IN [colls |-> [colls EXCEPT ![name] = @ \o added], kind |-> "success"]

\* insert_document(documents, collection_name): the collection is created
\* when absent and the documents are added under ids str(doc.subcommit_id).
\* collection.add raises when an id occurs twice in the call (fault stands
\* for every other failure of the vector store) and passes over a document
\* whose id the collection already holds.
InsertDocument(colls, documents, name, fault) ==
    IF fault \/ \E i, j \in DOMAIN documents :
                    i # j /\ Str(documents[i].subcommit_id) = Str(documents[j].subcommit_id)
    THEN [colls |-> colls, kind |-> "error"]
    ELSE LET fresh == SelectSeq(documents,
                          LAMBDA d : Str(d.subcommit_id) \notin IdsOf(colls[name]))
             added == [i \in DOMAIN fresh |-> Entry(Str(fresh[i].subcommit_id), fresh[i])]
         IN [colls |-> [colls EXCEPT ![name] = @ \o added], kind |-> "success"]

\* metadata.get(key, default)
MetadataGet(metadata, key, default) ==
    IF key \in DOMAIN metadata THEN metadata[key] ELSE default

\* The neighbor dictionary built from one query result.
Neighbor(e) ==
    [id |-> e.id, subcommit_id |-> MetadataGet(e.metadata, "subcommit_id", e.id),
     metadata |-> e.metadata]

\* The orders in which collection.query may rank n_results entries of a
\* collection: every sequence of min(n_results, count) different entries.
Rankings(entries, n) ==
    {r \in [1..Min(n, Len(entries)) -> DOMAIN entries] :
        \A i, j \in DOMAIN r : i # j => r[i] # r[j]}

GetKNeighborsAll(colls, name, k, fault) ==
    IF fault \/ k <= 0 THEN {[kind |-> "error", results |-> <<>>]}
    ELSE {[kind |-> "results",
           results |-> [i \in DOMAIN r |-> Neighbor(colls[name][r[i]])]] :
              r \in Rankings(colls[name], Len(colls[name]))}

\* get_k_neighbors(collection_name, vector, k): the dictionaries it may
\* return.  collection.query raises for n_results < 1 (fault stands for
\* every other failure of the vector store).
GetKNeighbors(colls, name, k, fault) ==
    IF fault \/ k <= 0 THEN {[kind |-> "error", results |-> <<>>]}
    ELSE {[kind |-> "results",
           results |-> [i \in DOMAIN r |-> Neighbor(colls[name][r[i]])]] :
              r \in Rankings(colls[name], k)}

RECURSIVE AllAnalysesLastGroupFirst(_)

AllAnalysesLastGroupFirst(results) ==
    IF results = <<>> THEN <<>>
    ELSE AllAnalysesLastGroupFirst(SubSeq(results, BATCH_SIZE + 1, Len(results)))
         \o AnalyzeCommitsBatch(SubSeq(results, 1, Min(BATCH_SIZE, Len(results)))).ret

\* list_commits cut into consecutive batches of BATCH_SIZE, each handed to
\* analyze_commits_batch, and the batches' results concatenated.
RECURSIVE AllAnalyses(_)

AllAnalyses(results) ==
    IF results = <<>> THEN <<>>
    ELSE AnalyzeCommitsBatch(SubSeq(results, 1, Min(BATCH_SIZE, Len(results)))).ret
         \o AllAnalyses(SubSeq(results, BATCH_SIZE + 1, Len(results)))

\* analyze_commits from "Store all analyses in Supabase" on: the tables
\* afterwards and the response.  message holds the numbers the message
\* text quotes.
StoreAndIndex(table, colls, repos, rows, r, n, all, in) ==
    LET same == [table |-> table, colls |-> colls, response |-> NoResponse]
        st == StoreCommitAnalyses(table, all, in.clientOk, in.storeFault)
        stored == [same EXCEPT !.table = st.table]
        pa == [k \in DOMAIN all |-> ProcessAnalysis(all[k], in.embeddings[k])]
        documents == SelectSeq(pa, LAMBDA d : d.kind = "document")
        ins == InsertDocument(colls, documents, r, in.insertFault)
    IN
    IF all = <<>>
    THEN [same EXCEPT !.response =
             [status |-> "warning", message |-> <<n>>, analyses_count |-> 0]]
    ELSE IF st.kind = "error"
    THEN [same EXCEPT !.response =
             [status |-> "partial_success", message |-> <<n>>, error |-> "store",
              analyses_count |-> Len(all)]]
    ELSE IF ~HasRepoId(repos, rows, st.table, r, in.clientOk, in.lookupFault)
    THEN [stored EXCEPT !.response =
             [status |-> "partial_success", message |-> <<n, Len(all)>>,
              analyses_count |-> Len(all)]]
    ELSE IF \E k \in DOMAIN pa : pa[k].kind = "raise"
    THEN [stored EXCEPT !.response = [status |-> "http_500"]]
    ELSE IF ins.kind = "error"
    THEN [stored EXCEPT !.response =
             [status |-> "partial_success", message |-> <<n, Len(all)>>,
              analyses_count |-> Len(all), embeddings_count |-> 0]]
    ELSE [table |-> st.table, colls |-> ins.colls,
          response |-> [status |-> "success", message |-> <<n, Len(all), Len(documents)>>,
                        analyses_count |-> Len(all), embeddings_count |-> Len(documents),
                        collection_name |-> r]]

\* range(0, n, b) for a positive step b.
RangeStarts(n, b) == {i \in 0..(n - 1) : i % b = 0}

\* list[i:j]
Slice(list, i, j) == SubSeq(list, i + 1, Min(j, Len(list)))

BatchesFullOnly(list, b) ==
    [k \in 1..(Len(list) \div b) |-> Slice(list, (k - 1) * b, (k - 1) * b + b)]

\* "Create batches": [list_commits[i:i + batch_size] for i in
\* range(0, len(list_commits), batch_size)].
Batches(list, b) ==
    [k \in 1..Cardinality(RangeStarts(Len(list), b)) |->
        Slice(list, (k - 1) * b, (k - 1) * b + b)]

RECURSIVE Flatten(_)

\* The commits of the groups, group after group.
Flatten(groups) ==
    IF groups = <<>> THEN <<>> ELSE Head(groups) \o Flatten(Tail(groups))

\* "Process all batches concurrently": every analyze_commits_batch(batch)
\* creates one get_commit_analysis coroutine per commit of its batch.
BatchTasks(groups) == Spawn(Flatten(groups))

\* analyze_commits from "Create batches" up to the await of the gathered
\* batches, for a non-empty list_commits.
StartAnalysis(list) ==
    /\ req' = [NoReq EXCEPT !.kind = "analyze_commits", !.status = "running",
                            !.commits = list]
    /\ batches' = Batches(list, batch_size)
    /\ task' = BatchTasks(Batches(list, batch_size))
    /\ hist' = Began(list)

\* The collaborators' answers to one full ingestion of repository r, as
\* FullIngest draws them.
FullIngestAnswers(r) ==
    UNION {UNION {UNION {
        {[repoOk |-> repoOk, clientOk |-> configured, regFault |-> regFault,
          queryFault |-> FALSE, badPage |-> la.badPage, how |-> la.how,
          detailFail |-> la.detailFail, insertFail |-> insertFail] :
            insertFail \in
                (IF repoOk /\ configured /\ la.how # "raise"
                    /\ ~AlreadyAnalyzed(StoreRepo(repositories, r, configured, regFault).result)
                 THEN SUBSET (ListedBefore(Listing(upstream[r]), la.badPage) \ la.detailFail)
                 ELSE {{}})} :
            la \in (IF repoOk
                       /\ ~AlreadyAnalyzed(StoreRepo(repositories, r, configured, regFault).result)
                    THEN ListAnswers(Listing(upstream[r]), {})
                    ELSE {[badPage |-> 0, how |-> "status", detailFail |-> {}]})} :
            regFault \in (IF repoOk /\ configured THEN BOOLEAN ELSE {FALSE})} :
            repoOk \in BOOLEAN}

\* POST /analyze-commits for repository r, up to the first await of the
\* batch analysis: the full ingestion, then either an early response or the
\* creation of one get_commit_analysis coroutine per ingested commit.
AnalyzeCommits(r) ==
    /\ CanStart
    /\ \E in \in FullIngestAnswers(r) :
       \E res \in {GetRepositoryCommits(repositories, commits, upstream[r], r, in)} :
          /\ repositories' = res.repos
          /\ commits' = res.rows
          /\ last' = CallRecord("full", r, in, res)
          /\ nreq' = nreq + 1
          /\ IF res.outcome = "already_analyzed" \/ res.ret = <<>>
             THEN /\ req' = [NoReq EXCEPT !.kind = "analyze_commits", !.status = "done"]
                  /\ task' = <<>>
                  /\ hist' = hist
                  /\ batches' = batches
                  /\ response' =
                        [status |-> IF res.outcome = "already_analyzed"
                                    THEN "already_analyzed" ELSE "not_found",
                         analyses_count |-> 0]
             ELSE /\ StartAnalysis(res.ret)
                  /\ response' = NoResponse
    /\ UNCHANGED <<configured, upstream, filesOf, cache, commit_analyses, collections, batch_size, svc>>

\* Every coroutine has settled: the batches return, the analyses are
\* stored and indexed, and the request is answered.
AnalyzeCommitsRespond ==
    /\ req.kind = "analyze_commits" /\ req.status = "running"
    /\ GatherDone(task)
    /\ \E all \in {AllAnalyses(task)} :
       \E storeFault \in (IF all # <<>> /\ configured THEN BOOLEAN ELSE {FALSE}) :
       \E lookupFault \in (IF all # <<>> /\ configured /\ ~storeFault THEN BOOLEAN ELSE {FALSE}) :
       \E embeddings \in (IF all # <<>> /\ configured /\ ~storeFault /\ ~lookupFault
                          THEN [DOMAIN all -> Embeddings]
                          ELSE {[k \in DOMAIN all |-> <<>>]}) :
       \E insertFault \in (IF \E k \in DOMAIN all : ProcessAnalysis(all[k], embeddings[k]).kind = "raise"
                           THEN {FALSE} ELSE BOOLEAN) :
       \E out \in {StoreAndIndex(commit_analyses, collections, repositories, commits,
                        last.repo,
                        Len(req.commits), all,
                        [clientOk |-> configured, storeFault |-> storeFault,
                         lookupFault |-> lookupFault, embeddings |-> embeddings,
                         insertFault |-> insertFault])} :
          /\ commit_analyses' = out.table
          /\ collections' = out.colls
          /\ response' = out.response
          /\ req' = [req EXCEPT !.status = "done", !.ret = all, !.failed = Raised(task)]
    /\ task' = <<>>
    /\ UNCHANGED <<ingestVars, svcVars, filesOf, cache, hist, nreq>>


(* ------------------- the services, called on their own ---------------- *)

\* The orchestrator is handed at most MaxCommits commits.
MaxCommits == 5

\* settings.BATCH_SIZE is set to at most MaxBatchSize.
MaxBatchSize == 3

NoSvc == [op |-> "none"]

CommitLists == UNION {[1..n -> Shas] : n \in 1..MaxCommits}

\* The batch orchestrator of analyze_commits and update_analysis is handed
\* a non-empty list_commits.
SplitIntoBatches(list) ==
    /\ CanStart
    /\ StartAnalysis(list)
    /\ nreq' = nreq + 1
    /\ UNCHANGED <<ingestVars, epVars, filesOf, cache, batch_size, svc>>

\* store_commit_analyses is passed at most MaxStore analyses in one call.
MaxStore == 3

\* The commit_analyses table holds at most MaxRows rows.
MaxRows == 5

\* The sub-commit analyses a caller may pass: of any commit, titled 1 or 2.
SubCommits == [title : 1..2, commit_sha : Shas, files : {{}}]

AnalysisLists == UNION {[1..n -> SubCommits] : n \in 1..MaxStore}

\* A caller runs store_commit_analyses(analyses); the store answers or
\* raises.  svc keeps the argument, the table before the call and the
\* dictionary returned.
StoreAnalyses(analyses) ==
    /\ Len(commit_analyses) + Len(analyses) <= MaxRows
    /\ \E fault \in BOOLEAN :
       \E st \in {StoreCommitAnalyses(commit_analyses, analyses, configured, fault)} :
          /\ commit_analyses' = st.table
          /\ svc' = [op |-> "store_commit_analyses", analyses |-> analyses,
                     before |-> commit_analyses, kind |-> st.kind,
                     inserted |-> st.inserted]
    /\ UNCHANGED <<ingestVars, anVars, collections, response, batch_size, batches>>

(* ------------------------------ indexing ------------------------------ *)

\* subcommit_id keeps the first 30 characters of the title.
IdTitleLen == 30

\* Titles reach one character beyond the slice.
MaxTitleTail == 1

\* Documents are told apart by MaxDocIds identifiers.
MaxDocIds == 2

\* A collection holds at most MaxDocs entries.
MaxDocs == 2

\* insert_document is passed at most MaxInsert documents in one call.
MaxInsert == 2

\* get_k_neighbors is asked for at most MaxK neighbors.
MaxK == 2

\* populate_collection is passed at most MaxPopulate sub-commits.
MaxPopulate == 2

\* The characters a title ends in; the run before them is of letters.
Chars == {" ", "_"}

\* Titles: up to MaxTitleTail characters, alone or after a run of
\* IdTitleLen letters.
Titles ==
    {head \o tail : head \in {<<>>, [i \in 1..IdTitleLen |-> "a"]},
                    tail \in UNION {[1..n -> Chars] : n \in 0..MaxTitleTail}}

TitledSubCommits == [title : Titles, commit_sha : Shas, files : {{}}]

\* title.replace(' ', '_')
Replace(title) == [i \in DOMAIN title |-> IF title[i] = " " THEN "_" ELSE title[i]]

\* s[:n]
Take(s, n) == SubSeq(s, 1, Min(n, Len(s)))

\* f"{subcommit.commit_sha}_{subcommit.title.replace(' ', '_')[:30]}"
VectorizeId(subcommit) ==
    [type |-> "str",
     v |-> <<subcommit.commit_sha, "_">> \o Take(Replace(subcommit.title), IdTitleLen)]

NoId == [type |-> "none", v |-> <<>>]

\* vectorize_subcommit(subcommit) under the embedding the model answered:
\* ValueError without an embedding; else the id is formed and the Document
\* is built from embedding[0], one component of the vector.
VectorizeSubcommit(subcommit, embedding) ==
    IF embedding = <<>> THEN [kind |-> "raise", subcommit_id |-> NoId]
    ELSE IF DocumentAccepts([type |-> "float", value |-> embedding[1]])
         THEN [kind |-> "document", vector |-> embedding[1],
               subcommit_id |-> VectorizeId(subcommit),
               metadata |-> [commit_sha |-> subcommit.commit_sha,
                             title |-> subcommit.title]]
         ELSE [kind |-> "raise", subcommit_id |-> VectorizeId(subcommit)]

\* insert_document(document, collection_name) with one Document in place of
\* a list: the loops over `documents` walk the fields of the model, the
\* attribute access raises and the error dictionary is returned.
InsertBareDocument(colls, document, name) == [colls |-> colls, kind |-> "error"]

SubCommitLists == UNION {[1..n -> TitledSubCommits] : n \in 1..MaxPopulate}

\* A caller runs populate_collection(collection_name, subcommits).  svc
\* keeps the sub-commits and the identifier vectorize_subcommit gave each.
PopulateCollection(name, subcommits) ==
    /\ \E embeddings \in [DOMAIN subcommits -> Embeddings] :
          LET vs == [i \in DOMAIN subcommits |->
                        VectorizeSubcommit(subcommits[i], embeddings[i])]
              documents == SelectSeq(vs, LAMBDA d : d.kind = "document")
              results == [i \in DOMAIN documents |->
                            InsertBareDocument(collections, documents[i], name)]
          IN /\ svc' = [op |-> "populate_collection", collection |-> name,
                        subcommits |-> subcommits,
                        ids |-> [i \in DOMAIN vs |-> vs[i].subcommit_id],
                        success_count |->
                            Cardinality({i \in DOMAIN results : results[i].kind # "error"}),
                        total_count |-> Len(subcommits)]
             /\ collections' = collections
    /\ UNCHANGED <<ingestVars, anVars, commit_analyses, response, batch_size, batches>>

DocIds == {[type |-> "str", v |-> i] : i \in 1..MaxDocIds}

\* The Documents the producers of this repository build: the metadata
\* carries the Document's subcommit_id (process_analysis) or has no such
\* key (vectorize_subcommit).
Documents ==
    UNION {{[vector |-> 1, subcommit_id |-> id, metadata |-> [title |-> 1]],
            [vector |-> 1, subcommit_id |-> id,
             metadata |-> [title |-> 1, subcommit_id |-> id]]} : id \in DocIds}

DocumentLists == UNION {[1..n -> Documents] : n \in 1..MaxInsert}

\* A caller runs insert_document(documents, collection_name).
InsertDocuments(name, documents) ==
    /\ Len(collections[name]) + Len(documents) <= MaxDocs
    /\ \E fault \in BOOLEAN :
       \E ins \in {InsertDocument(collections, documents, name, fault)} :
          /\ collections' = ins.colls
          /\ svc' = [op |-> "insert_document", collection |-> name,
                     kind |-> ins.kind]
    /\ UNCHANGED <<ingestVars, anVars, commit_analyses, response, batch_size, batches>>

\* A caller runs get_k_neighbors(collection_name, vector, k).
QueryNeighbors(name, k) ==
    /\ \E fault \in BOOLEAN :
       \E out \in GetKNeighbors(collections, name, k, fault) :
          svc' = [op |-> "get_k_neighbors", collection |-> name, k |-> k,
                  kind |-> out.kind, results |-> out.results]
    /\ UNCHANGED <<ingestVars, anVars, epVars, batch_size, batches>>


\* -- the file attribution of one get_commit_analysis call --

\* The model answer of the call under study holds at most MaxAttributed
\* sub-commits.
MaxAttributed == 2

\* The analysis of commit sha with n sub-commits, after "Set commit_sha for
\* each subcommit" and before any file is assigned.
StampedAnalysis(sha, n) ==
    Stamp([i \in 1..n |-> [title |-> i, commit_sha |-> NoSha, files |-> {}]], sha)

\* The first get_commit_analysis call for commit sha, in its attempt number
\* attempt, at the gather of the file analyses of its n sub-commits.
AtFileAnalysis(sha, attempt, n) ==
    [NewTask(sha, 1, FALSE) EXCEPT !.pc = "files", !.attempt = attempt, !.inv = attempt,
                                   !.onlyRaises = FALSE, !.onlyEmpty = FALSE,
                                   !.clean = (attempt = 1),
                                   !.result = [oid |-> 1,
                                               analysis |-> StampedAnalysis(sha, n)]]

\* A get_subcommit_file_analysis coroutine that has not finished.
Pending == [kind |-> "pending", files |-> {}]

\* file_analysis_tasks is built and handed to asyncio.gather: one coroutine
\* per sub-commit, in the order of the analysis list.  svc.results holds
\* what each coroutine came to, by its position in the task list, and
\* svc.order the positions in the order the coroutines finished.
LaunchFileAnalyses(i) ==
    /\ task[i].pc = "files"
    /\ svc = NoSvc
    /\ svc' = [op |-> "file_analysis_tasks", call |-> i, attempt |-> task[i].attempt,
               results |-> [k \in 1..Len(task[i].result.analysis) |-> Pending],
               order |-> <<>>]
    /\ UNCHANGED <<ingestVars, anVars, epVars, batch_size, batches>>

\* The coroutine launched for sub-commit k finishes, whichever others are
\* still running.
FileAnalysisDone(i, k) ==
    /\ svc.op = "file_analysis_tasks"
    /\ svc.call = i
    /\ k \in DOMAIN svc.results
    /\ svc.results[k] = Pending
    /\ \E answer \in FileAnswers(task[i].sha) :
          svc' = [svc EXCEPT !.results[k] = answer, !.order = Append(@, k)]
    /\ UNCHANGED <<ingestVars, anVars, epVars, batch_size, batches>>

GatherByCompletion(results, order) == [k \in DOMAIN order |-> results[order[k]]]

\* The list asyncio.gather returns: the results in the order of the
\* awaitables it was given, whatever order they finished in.
Gather(results, order) == results

\* asyncio.gather(*file_analysis_tasks, return_exceptions=True) answers
\* once every coroutine has finished, and the files are assigned.
GatherFileAnalyses(i) ==
    /\ task[i].pc = "files"
    /\ svc.op = "file_analysis_tasks"
    /\ svc.call = i
    /\ \A k \in DOMAIN svc.results : svc.results[k] # Pending
    /\ MoveTask(i, AfterFiles(task[i], Gather(svc.results, svc.order)))
    /\ svc' = [svc EXCEPT !.op = "file_analysis"]
    /\ UNCHANGED <<batch_size, batches>>

\* -- the groups of one analyze_commits request --

\* The request under study is handed at most MaxGrouped commits.
MaxGrouped == 4

GroupedLists == UNION {[1..n -> Shas] : n \in 1..MaxGrouped}

\* The ways the get_commit_analysis call t can end, taken as a whole: from
\* the cache when the SHA is in it, and otherwise with the exception of its
\* last attempt or with a stamped, non-empty analysis.
Endings(t) ==
    IF CacheGet(cache, t.sha) # NoResult
    THEN {[t EXCEPT !.pc = "returned", !.attempt = 1, !.hit = TRUE, !.onlyEmpty = FALSE,
                    !.result = CacheGet(cache, t.sha)]}
    ELSE {[t EXCEPT !.pc = "raised", !.attempt = retries, !.inv = retries,
                    !.clean = FALSE]}
         \cup {[t EXCEPT !.pc = "returned", !.attempt = 1, !.inv = 1,
                         !.onlyRaises = FALSE, !.onlyEmpty = FALSE,
                         !.result = [oid |-> t.ord, analysis |-> Stamp(a, t.sha)]] :
                   a \in ModelAnalyses \ {<<>>}}

\* The positions of the tasks that have finished, in the order they did.
Completed == IF svc = NoSvc THEN <<>> ELSE svc.order

\* The get_commit_analysis task at position i of batch_tasks finishes,
\* whichever tasks of its own or of another group are still running.
CompleteAnalysis(i) ==
    /\ req.kind = "analyze_commits" /\ req.status = "running"
    /\ task[i].pc = "begin"
    /\ \E t2 \in Endings(task[i]) : MoveTask(i, t2)
    /\ svc' = [op |-> "gather", order |-> Append(Completed, i)]
    /\ UNCHANGED <<batch_size, batches>>

\* "Combine all results": both gathers are through and all_analyses holds
\* what the groups handed back.
CombineResults ==
    /\ req.kind = "analyze_commits" /\ req.status = "running"
    /\ GatherDone(task)
    /\ req' = [req EXCEPT !.status = "done", !.ret = AllAnalyses(task),
                          !.failed = Raised(task)]
    /\ UNCHANGED <<ingestVars, epVars, svcVars, filesOf, cache, task, hist, nreq>>

\* -- two full ingestions of one repository at once --

\* The full ingestions running at once.
Callers == 1..2

\* A get_repository_commits coroutine before its first await.
NewIngestion ==
    [pc |-> "resolving", reg |-> "none", listFetches |-> 0, details |-> {}, ret |-> <<>>]

\* Two callers start get_repository_commits for repository r, which is not
\* registered yet.
StartIngestions(r) ==
    /\ svc = NoSvc
    /\ r \notin repositories
    /\ svc' = [op |-> "ingestions", repo |-> r, calls |-> [c \in Callers |-> NewIngestion]]
    /\ UNCHANGED <<ingestVars, anVars, epVars, batch_size, batches>>

\* GitHub answers the repository lookup of call c; any other status than
\* 200 makes the call return [].
ResolveRepository(c) ==
    /\ svc.op = "ingestions"
    /\ svc.calls[c].pc = "resolving"
    /\ \E repoOk \in BOOLEAN :
          svc' = [svc EXCEPT !.calls[c].pc = IF repoOk THEN "registering" ELSE "returned"]
    /\ UNCHANGED <<ingestVars, anVars, epVars, batch_size, batches>>

\* Call c runs store_repo, which has no await in it, and looks at the
\* dictionary: AlreadyAnalyzedRepositoryError, or on to the commits.
RegisterRepository(c) ==
    /\ svc.op = "ingestions"
    /\ svc.calls[c].pc = "registering"
    /\ \E fault \in (IF configured THEN BOOLEAN ELSE {FALSE}) :
       \E reg \in {StoreRepo(repositories, svc.repo, configured, fault)} :
          /\ repositories' = reg.repos
          /\ svc' = [svc EXCEPT !.calls[c].reg = reg.result,
                                !.calls[c].pc = IF AlreadyAnalyzed(reg.result)
                                                THEN "already_analyzed" ELSE "listing"]
    /\ UNCHANGED <<configured, upstream, commits, last, anVars, epVars, batch_size, batches>>

\* Call c fetches the listing and the details, stores the commits and
\* returns.
ListAndStoreCommits(c) ==
    /\ svc.op = "ingestions"
    /\ svc.calls[c].pc = "listing"
    /\ \E listing \in {Listing(upstream[svc.repo])} :
       \E la \in ListAnswers(listing, {}) :
       \E insertFail \in (IF configured /\ la.how # "raise"
                          THEN SUBSET (ListedBefore(listing, la.badPage) \ la.detailFail)
                          ELSE {{}}) :
       \E in \in {[repoOk |-> TRUE, clientOk |-> configured, regFault |-> FALSE,
                   queryFault |-> FALSE, badPage |-> la.badPage, how |-> la.how,
                   detailFail |-> la.detailFail, insertFail |-> insertFail]} :
       \E none \in {[repos |-> repositories, rows |-> commits, outcome |-> "returned",
                     ret |-> <<>>, reg |-> "none", listFetches |-> 0, details |-> {},
                     list |-> <<>>, sc |-> NoStoreResult]} :
       \E res \in {FetchAndStoreCommits(none,
                       [repos |-> repositories, result |-> svc.calls[c].reg],
                       commits, upstream[svc.repo], svc.repo, in)} :
          /\ commits' = res.rows
          /\ svc' = [svc EXCEPT !.calls[c].pc = "returned",
                                !.calls[c].listFetches = res.listFetches,
                                !.calls[c].details = res.details,
                                !.calls[c].ret = res.ret]
    /\ UNCHANGED <<configured, upstream, repositories, last, anVars, epVars,
                   batch_size, batches>>

(* ------------------------------- queries ------------------------------ *)

\* analysis.id as process_analysis hands it to Document: a string, of
\* decimal digits or not (v tells the identifiers apart).
QueryIds == {[type |-> "str", v |-> i, decimal |-> b] : i \in 1..MaxDocIds, b \in BOOLEAN}

\* The Documents process_analysis builds: the metadata repeats the id.
QueryDocuments ==
    {[vector |-> 1, subcommit_id |-> id, metadata |-> [title |-> 1, subcommit_id |-> id]] :
        id \in QueryIds}

QueryDocumentLists == UNION {[1..n -> QueryDocuments] : n \in 1..MaxInsert}

\* int(result["id"]) raises ValueError unless the string is of digits.
IntAccepts(id) == id.decimal

\* int(result["id"])
IntOf(id) == [id EXCEPT !.type = "int"]

\* answer_user_query_with_subcommits(subcommits, user_query): the
\* Structured Generation Client is handed the prompt built from what it is
\* passed and returns the structured answer or fails (fault).
AnswerUserQueryWithSubcommits(subcommits, fault) ==
    IF fault THEN [kind |-> "raise"]
    ELSE [kind |-> "answer", grounded_on |-> subcommits]

\* The outcome of a query_commits call that asked nothing of the model.
NoSynthesis ==
    [model_calls |-> 0, model_input |-> <<>>, synthesis |-> "none", store_lookups |-> 0]

GroundedAlways(results) == TRUE

\* `if results:` before the synthesis.
Grounded(results) == results # <<>>

SynthesisFailureRaising(subcommit_ids) == [status |-> "http_500"]

\* The dictionary returned when answer_user_query_with_subcommits raised.
SynthesisFailure(subcommit_ids) ==
    [status |-> "error", subcommits_ids |-> subcommit_ids]

\* query_commits(request) under the embedding of the query, the answer nb
\* of get_k_neighbors and the fate of the synthesis: the neighbors found,
\* what was asked of the model (model_calls, model_input, synthesis) and
\* of the analysis store (store_lookups), and the response.
\* Every failure before the synthesis is answered with status 500; with no
\* neighbor the model is not asked and response is None.
QueryCommitsOutcome(colls, name, k, embedding, nb, fault) ==
    LET results == nb.results
        subcommit_ids == [i \in DOMAIN results |-> IntOf(results[i].id)]
        chat == AnswerUserQueryWithSubcommits(results, fault)
        asked == [model_calls |-> 1, model_input |-> results, synthesis |-> chat.kind,
                  store_lookups |-> 0, retrieved |-> TRUE]
        unasked == NoSynthesis @@ [retrieved |-> TRUE]
    IN
    IF embedding = <<>> \/ nb.kind = "error"
    THEN NoSynthesis @@ [retrieved |-> FALSE, neighbors |-> <<>>,
                         response |-> [status |-> "http_500"]]
    ELSE IF \E i \in DOMAIN results : ~IntAccepts(results[i].id)
    THEN unasked @@ [neighbors |-> results, response |-> [status |-> "http_500"]]
    ELSE IF ~Grounded(results)
    THEN unasked @@ [neighbors |-> results,
                     response |-> [status |-> "success", response |-> [kind |-> "none"]]]
    ELSE IF chat.kind = "raise"
    THEN asked @@ [neighbors |-> results, response |-> SynthesisFailure(subcommit_ids)]
    ELSE asked @@ [neighbors |-> results,
                   response |-> [status |-> "success", response |-> chat]]

\* A caller posts to /query-commits.
QueryCommits(name, k) ==
    /\ \E embedding \in Embeddings, storeFault \in BOOLEAN, fault \in BOOLEAN :
       \E nb \in GetKNeighbors(collections, name, k, storeFault) :
          svc' = [op |-> "query_commits", collection |-> name, k |-> k]
                 @@ QueryCommitsOutcome(collections, name, k, embedding, nb, fault)
    /\ UNCHANGED <<ingestVars, anVars, epVars, batch_size, batches>>

\* find_similar_commits_by_text(text, k, collection_name) under the
\* embedding of the text: the loop walks the keys of the dictionary
\* get_k_neighbors returned, the attribute access on the key raises and the
\* handler returns no sub-commit; get_commit_analysis is not reached.
FindSimilarCommitsByText(colls, name, k, embedding) ==
    [subcommits |-> <<>>, store_lookups |-> 0]

\* A caller runs find_similar_commits_by_text.
FindSimilar(name, k) ==
    /\ \E embedding \in Embeddings :
          svc' = [op |-> "find_similar_commits_by_text", collection |-> name, k |-> k]
                 @@ FindSimilarCommitsByText(collections, name, k, embedding)
    /\ UNCHANGED <<ingestVars, anVars, epVars, batch_size, batches>>

(* ------------------------- incremental analysis ----------------------- *)

\* The two SHAs update_analysis keeps ("Filter commits for test
\* purposes"): SHA 1 stands for a commit with one of them, every other SHA
\* of the model for a commit with neither.
test_hashes == {1}

\* [commit for commit in list_commits if commit.sha in test_hashes]
FilterTestHashes(list) == SelectSeq(list, LAMBDA s : s \in test_hashes)

\* An update_analysis coroutine before its first await.  skip is
\* existing_commit_shas, new the list get_new_repository_commits returned,
\* submitted the commits handed to analyze_commits_batch, tasks their
\* get_commit_analysis coroutines, inserted the rows store_commit_analyses
\* reported.
NewUpdate ==
    [pc |-> "resolving", skip |-> {}, new |-> <<>>, submitted |-> <<>>, tasks |-> <<>>,
     all_analyses |-> <<>>, inserted |-> <<>>, response |-> NoResponse]

\* Two callers post /update-analysis for repository r at once; no
\* ingestion call is on record while they run.
StartUpdates(r) ==
    /\ svc = NoSvc
    /\ svc' = [op |-> "updates", repo |-> r, calls |-> [c \in Callers |-> NewUpdate]]
    /\ last' = NoCall
    /\ UNCHANGED <<configured, upstream, repositories, commits, anVars, epVars,
                   batch_size, batches>>

\* "No new commits to analyze".
NothingNew == [status |-> "success", analyses_count |-> 0]

\* GitHub answers the repository lookup of call c and the call reads the
\* SHAs stored for the repository; a failure of either makes
\* get_new_repository_commits return [].
ReadExistingCommits(c) ==
    /\ svc.op = "updates"
    /\ svc.calls[c].pc = "resolving"
    /\ \E repoOk \in BOOLEAN :
       \E queryFault \in (IF repoOk /\ configured THEN BOOLEAN ELSE {FALSE}) :
          svc' = IF repoOk /\ configured /\ ~queryFault
                 THEN [svc EXCEPT !.calls[c].pc = "listing",
                                  !.calls[c].skip = ExistingShas(commits, svc.repo)]
                 ELSE [svc EXCEPT !.calls[c].pc = "returned",
                                  !.calls[c].response = NothingNew]
    /\ UNCHANGED <<ingestVars, anVars, epVars, batch_size, batches>>

\* The get_commit_analysis coroutines of call c, one per submitted commit.
SpawnNew(c, list) == [i \in DOMAIN list |-> NewTask(list[i], c, FALSE)]

\* Call c walks the listing, fetches and stores the unseen commits, and
\* get_new_repository_commits returns; update_analysis filters the list
\* and hands what is left to analyze_commits_batch.
FetchNewCommits(c) ==
    /\ svc.op = "updates"
    /\ svc.calls[c].pc = "listing"
    /\ \E listing \in {Listing(upstream[svc.repo])} :
       \E la \in ListAnswers(listing, svc.calls[c].skip) :
       \E insertFail \in
           (IF la.how # "raise"
            THEN SUBSET ((ListedBefore(listing, la.badPage) \ svc.calls[c].skip)
                            \ la.detailFail)
            ELSE {{}}) :
       \E in \in {[repoOk |-> TRUE, clientOk |-> configured, regFault |-> FALSE,
                   queryFault |-> FALSE, badPage |-> la.badPage, how |-> la.how,
                   detailFail |-> la.detailFail, insertFail |-> insertFail]} :
       \E none \in {[repos |-> repositories, rows |-> commits, outcome |-> "returned",
                     ret |-> <<>>, reg |-> "none", listFetches |-> 0, details |-> {},
                     list |-> <<>>, sc |-> NoStoreResult]} :
       \E res \in {FetchAndStoreNew(none, svc.calls[c].skip, commits,
                                    upstream[svc.repo], svc.repo, in)} :
       \E list_commits \in {FilterTestHashes(res.ret)} :
          /\ commits' = res.rows
          /\ svc' = IF list_commits = <<>>
                    THEN [svc EXCEPT !.calls[c].pc = "returned",
                                     !.calls[c].new = res.ret,
                                     !.calls[c].response = NothingNew]
                    ELSE [svc EXCEPT !.calls[c].pc = "analyzing",
                                     !.calls[c].new = res.ret,
                                     !.calls[c].submitted = list_commits,
                                     !.calls[c].tasks = SpawnNew(c, list_commits)]
    /\ UNCHANGED <<configured, upstream, repositories, last, anVars, epVars,
                   batch_size, batches>>

\* Task i of call c checks the cache and, on a miss, calls the model.
BeginNewAnalysis(c, i) ==
    /\ svc.op = "updates"
    /\ svc.calls[c].pc = "analyzing"
    /\ i \in DOMAIN svc.calls[c].tasks
    /\ svc.calls[c].tasks[i].pc = "begin"
    /\ \E t \in {svc.calls[c].tasks[i]} :
       \E cached \in {CacheGet(cache, t.sha)} :
          svc' = [svc EXCEPT !.calls[c].tasks[i] =
                     IF cached # NoResult
                     THEN [t EXCEPT !.pc = "returned", !.attempt = 1, !.hit = TRUE,
                                    !.onlyEmpty = FALSE, !.result = cached]
                     ELSE [t EXCEPT !.pc = "model", !.attempt = 1, !.inv = 1]]
    /\ UNCHANGED <<ingestVars, anVars, epVars, batch_size, batches>>

\* The ways a get_commit_analysis call that missed the cache can end, taken
\* as a whole: with the exception of its last attempt or with a stamped,
\* non-empty analysis.
AnalysisEnds(t) ==
    {[t EXCEPT !.pc = "raised", !.attempt = retries, !.inv = retries, !.clean = FALSE]}
    \cup {[t EXCEPT !.pc = "returned", !.onlyRaises = FALSE, !.onlyEmpty = FALSE,
                    !.result = [oid |-> t.ord, analysis |-> Stamp(a, t.sha)]] :
              a \in ModelAnalyses \ {<<>>}}

\* Task i of call c ends; a returned analysis is written to the cache.
EndNewAnalysis(c, i) ==
    /\ svc.op = "updates"
    /\ svc.calls[c].pc = "analyzing"
    /\ i \in DOMAIN svc.calls[c].tasks
    /\ svc.calls[c].tasks[i].pc = "model"
    /\ \E t2 \in AnalysisEnds(svc.calls[c].tasks[i]) :
          /\ svc' = [svc EXCEPT !.calls[c].tasks[i] = t2]
          /\ cache' = IF t2.pc = "returned"
                      THEN [cache EXCEPT ![t2.sha] = t2.result] ELSE cache
    /\ UNCHANGED <<ingestVars, epVars, filesOf, task, req, hist, nreq, batch_size, batches>>

\* update_analysis from "Store all analyses in Supabase" on.
StoreNew(table, n, all, clientOk, fault) ==
    LET st == StoreCommitAnalyses(table, all, clientOk, fault)
    IN
    IF all = <<>>
    THEN [table |-> table, inserted |-> <<>>,
          response |-> [status |-> "warning", message |-> <<n>>, analyses_count |-> 0]]
    ELSE IF st.kind = "error"
    THEN [table |-> table, inserted |-> <<>>,
          response |-> [status |-> "partial_success", message |-> <<n>>,
                        error |-> "store", analyses_count |-> Len(all)]]
    ELSE [table |-> st.table, inserted |-> st.inserted,
          response |-> [status |-> "success", message |-> <<n, Len(all)>>,
                        analyses_count |-> Len(all)]]

\* Both gathers of call c are through: the results are combined, stored
\* and the response returned.
StoreNewAnalyses(c) ==
    /\ svc.op = "updates"
    /\ svc.calls[c].pc = "analyzing"
    /\ GatherDone(svc.calls[c].tasks)
    /\ \E fault \in BOOLEAN :
       \E all \in {AllAnalyses(svc.calls[c].tasks)} :
       \E out \in {StoreNew(commit_analyses, Len(svc.calls[c].submitted), all,
                            configured, fault)} :
          /\ commit_analyses' = out.table
          /\ svc' = [svc EXCEPT !.calls[c].pc = "returned",
                                !.calls[c].all_analyses = all,
                                !.calls[c].inserted = out.inserted,
                                !.calls[c].response = out.response]
    /\ UNCHANGED <<ingestVars, anVars, collections, response, batch_size, batches>>
IngestIdle ==
    /\ configured = TRUE
    /\ upstream = [r \in Repos |-> {}]
    /\ repositories = {}
    /\ commits = {}
    /\ last = NoCall

EndpointIdle ==
    /\ commit_analyses = <<>>
    /\ collections = [r \in Repos |-> <<>>]
    /\ response = NoResponse

ServicesIdle ==
    /\ batch_size = BATCH_SIZE
    /\ batches = <<>>
    /\ svc = NoSvc

AnalyzerIdle ==
    /\ cache = [s \in Shas |-> NoResult]
    /\ task = <<>>
    /\ req = NoReq
    /\ hist = [s \in Shas |-> NoHist]
    /\ nreq = 0

InitAnalyze ==
    /\ IngestIdle
    /\ filesOf \in [Shas -> SUBSET FileNames]
    /\ AnalyzerIdle
    /\ EndpointIdle
    /\ ServicesIdle

NextAnalyze ==
    \/ \E s \in Shas : StartGetCommitAnalysis(s)
    \/ \E s \in Shas : StartAnalyzeCommit(s)
    \/ \E list \in BatchLists : StartBatch(list)
    \/ \E i \in DOMAIN task : Begin(i)
    \/ \E i \in DOMAIN task : PrimaryAnswer(i)
    \/ \E i \in DOMAIN task : FallbackAnswer(i)
    \/ \E i \in DOMAIN task : DirectAnswer(i)
    \/ \E i \in DOMAIN task : FilesDone(i)
    \/ Finish

(* ---------------------------- specifications -------------------------- *)

NextIngest ==
    \/ \E r \in Repos : Push(r)
    \/ \E r \in Repos : FullIngest(r)
    \/ \E r \in Repos : IncrIngest(r)

InitIngest ==
    /\ StoreEmpty
    /\ filesOf = [s \in Shas |-> FileNames]
    /\ AnalyzerIdle
    /\ EndpointIdle
    /\ ServicesIdle

SpecIngest == InitIngest /\ [][NextIngest]_vars

SpecAnalyze == InitAnalyze /\ [][NextAnalyze]_vars


\* The endpoint is exercised against two repositories that list the same
\* history, in a process that starts with an empty store and cache.
InitRequest ==
    /\ configured \in BOOLEAN
    /\ upstream = [r \in Repos |-> Shas]
    /\ repositories = {}
    /\ commits = {}
    /\ last = NoCall
    /\ filesOf \in [Shas -> SUBSET FileNames]
    /\ AnalyzerIdle
    /\ EndpointIdle
    /\ ServicesIdle

NextRequest ==
    \/ \E r \in Repos : AnalyzeCommits(r)
    \/ \E i \in DOMAIN task : Begin(i)
    \/ \E i \in DOMAIN task : PrimaryAnswer(i)
    \/ \E i \in DOMAIN task : FallbackAnswer(i)
    \/ \E i \in DOMAIN task : DirectAnswer(i)
    \/ \E i \in DOMAIN task : FilesDone(i)
    \/ AnalyzeCommitsRespond

SpecRequest == InitRequest /\ [][NextRequest]_vars


\* The batch orchestrator under every batch size, on every list of commits.
InitBatch ==
    /\ IngestIdle
    /\ filesOf = [s \in Shas |-> FileNames]
    /\ AnalyzerIdle
    /\ EndpointIdle
    /\ batch_size \in 1..MaxBatchSize
    /\ batches = <<>>
    /\ svc = NoSvc

NextBatch == \E list \in CommitLists : SplitIntoBatches(list)

SpecBatch == InitBatch /\ [][NextBatch]_vars

\* store_commit_analyses called again and again against one table.
InitStore ==
    /\ IngestIdle
    /\ filesOf = [s \in Shas |-> FileNames]
    /\ AnalyzerIdle
    /\ EndpointIdle
    /\ ServicesIdle

NextStore == \E analyses \in AnalysisLists : StoreAnalyses(analyses)

SpecStore == InitStore /\ [][NextStore]_vars

\* The embedding and indexing services called on their own, against
\* collections that start empty.
InitIndex ==
    /\ IngestIdle
    /\ filesOf = [s \in Shas |-> FileNames]
    /\ AnalyzerIdle
    /\ EndpointIdle
    /\ ServicesIdle

NextIndex ==
    \/ \E name \in Repos : \E documents \in DocumentLists :
          InsertDocuments(name, documents)
    \/ \E name \in Repos : \E k \in 0..MaxK : QueryNeighbors(name, k)

SpecIndex == InitIndex /\ [][NextIndex]_vars

\* populate_collection called on its own.  The call leaves nothing behind
\* in the collections, so one call per behaviour shows all it can do.
NextVectorize ==
    /\ svc = NoSvc
    /\ \E name \in Repos : \E subcommits \in SubCommitLists :
          PopulateCollection(name, subcommits)

SpecVectorize == InitIndex /\ [][NextVectorize]_vars

InitAttribution ==
    /\ IngestIdle
    /\ filesOf = [s \in Shas |-> FileNames]
    /\ EndpointIdle
    /\ ServicesIdle
    /\ \E sha \in Shas, attempt \in 1..retries, n \in 1..MaxAttributed :
          /\ cache = [s \in Shas |-> NoResult]
          /\ task = <<AtFileAnalysis(sha, attempt, n)>>
          /\ req = [NoReq EXCEPT !.kind = "get_commit_analysis", !.status = "running",
                                 !.commits = <<sha>>]
          /\ hist = [s \in Shas |-> IF s = sha THEN [NoHist EXCEPT !.calls = 1] ELSE NoHist]
          /\ nreq = 1

NextAttribution ==
    \/ \E i \in DOMAIN task : LaunchFileAnalyses(i)
    \/ \E i \in DOMAIN task : \E k \in 1..MaxAttributed : FileAnalysisDone(i, k)
    \/ \E i \in DOMAIN task : GatherFileAnalyses(i)

SpecAttribution == InitAttribution /\ [][NextAttribution]_vars

\* One analyze_commits request from the split into groups to the combined
\* list, each get_commit_analysis call taken as one step.
NextGroups ==
    \/ svc = NoSvc /\ \E list \in GroupedLists : SplitIntoBatches(list)
    \/ \E i \in DOMAIN task : CompleteAnalysis(i)
    \/ CombineResults

SpecGroups == InitStore /\ [][NextGroups]_vars

\* One step of a get_commit_analysis coroutine: the event loop resumes it
\* when the call it awaits has answered.
TaskStep ==
    \E i \in DOMAIN task :
        \/ Begin(i)
        \/ PrimaryAnswer(i)
        \/ FallbackAnswer(i)
        \/ DirectAnswer(i)
        \/ FilesDone(i)

\* One analyze_commits_batch call run to its end.
NextBatchRun ==
    \/ nreq = 0 /\ \E list \in BatchLists : StartBatch(list)
    \/ TaskStep
    \/ Finish

\* Every external call answers or raises, so the coroutine awaiting it is
\* resumed; the gather is resumed once its awaitables are through.
SpecBatchRun ==
    InitAnalyze /\ [][NextBatchRun]_vars /\ WF_vars(TaskStep) /\ WF_vars(Finish)

\* Two full ingestions of one repository, their steps interleaved at the
\* awaits.
NextRace ==
    \/ svc = NoSvc /\ \E r \in Repos : Push(r)
    \/ \E r \in Repos : StartIngestions(r)
    \/ \E c \in Callers : ResolveRepository(c)
    \/ \E c \in Callers : RegisterRepository(c)
    \/ \E c \in Callers : ListAndStoreCommits(c)

SpecRace == InitIngest /\ [][NextRace]_vars

\* The query endpoint and the similarity search called against the
\* collections insert_document has filled.
NextQuery ==
    \/ \E name \in Repos : \E documents \in QueryDocumentLists :
          InsertDocuments(name, documents)
    \/ \E name \in Repos : \E k \in 0..MaxK : QueryCommits(name, k)
    \/ \E name \in Repos : \E k \in 0..MaxK : FindSimilar(name, k)

SpecQuery == InitIndex /\ [][NextQuery]_vars

\* Two update_analysis requests for one repository at once, in a process
\* that starts with an empty store and cache; the repository may have been
\* ingested in full before.
NextUpdate ==
    \/ svc = NoSvc /\ \E r \in Repos : Push(r)
    \/ svc = NoSvc /\ \E r \in Repos : FullIngest(r)
    \/ \E r \in Repos : StartUpdates(r)
    \/ \E c \in Callers : ReadExistingCommits(c)
    \/ \E c \in Callers : FetchNewCommits(c)
    \/ \E c \in Callers : \E i \in 1..MaxSha : BeginNewAnalysis(c, i)
    \/ \E c \in Callers : \E i \in 1..MaxSha : EndNewAnalysis(c, i)
    \/ \E c \in Callers : StoreNewAnalyses(c)

SpecUpdate == InitIngest /\ [][NextUpdate]_vars
(* ------------------- properties of the ingestion gate ----------------- *)

RowsOfSha(rows, s) == {row \in rows : row.sha = s}

\* The registration of the last call reached the store: the repository was
\* resolved, a client was built and the insert was answered by the store.
RegistrationAnswered ==
    last.in.repoOk /\ last.in.clientOk /\ ~last.in.regFault

\* C1: once a full ingestion has registered a repository, a second full
\* ingestion of it (one that resolves the repository and whose registration
\* the store answers) raises AlreadyAnalyzedRepositoryError, and the commit
\* rows are the same after the call as before it.
C1_SecondFullIngestionRefused ==
    (last.op = "full" /\ last.repo \in last.preRepos /\ RegistrationAnswered)
        => (last.outcome = "already_analyzed" /\ commits = last.pre)

\* A second full ingestion was refused while GitHub listed a commit the
\* store does not hold.
C1_Witness ==
    /\ last.op = "full"
    /\ last.repo \in last.preRepos
    /\ last.outcome = "already_analyzed"
    /\ upstream[last.repo] \ ShasOf(commits) # {}

\* C3: no two commit rows share a SHA, whatever full and incremental
\* ingestions ran; and when store_commits is handed a SHA that already has a
\* row, the rows of that SHA stay as they were and, the inserts being
\* answered by the store, the SHA is returned under existing_commits of a
\* dictionary without an error, not under inserted_commits.
C3_CommitShaUnique ==
    /\ \A a, b \in commits : a.sha = b.sha => a = b
    /\ (last.op \in {"full", "incr"} /\ last.sc.called /\ last.in.clientOk) =>
          \A s \in (Range(last.list) \cap ShasOf(last.pre)) \ last.in.insertFail :
              /\ RowsOfSha(commits, s) = RowsOfSha(last.pre, s)
              /\ last.in.insertFail = {} =>
                    /\ last.sc.kind = "ok"
                    /\ s \in Range(last.sc.existing)
                    /\ s \notin Range(last.sc.inserted)

\* store_commits met a SHA that already had a row, next to one it inserted.
C3_Witness ==
    /\ last.op \in {"full", "incr"}
    /\ last.sc.kind = "ok"
    /\ last.sc.inserted # <<>>
    /\ \E s \in Range(last.sc.existing) : s \in ShasOf(last.pre)

\* C4: after a full ingestion has registered the repository, an incremental
\* ingestion made while every SHA GitHub lists already has a commit row (no
\* new upstream commit) returns an empty list, fetches no commit detail and
\* leaves the commit rows as they were; so do two such calls in a row.
C4_IncrementalWithoutNewCommits ==
    (last.op = "incr" /\ last.repo \in last.preRepos
        /\ last.up \subseteq ShasOf(last.pre))
        => (last.ret = <<>> /\ last.details = {} /\ commits = last.pre)


\* C17: the list a full ingestion returns holds only commits the call
\* newly inserted: no commit whose SHA had a row before the call.
C17_FullIngestionReturnsOnlyNewCommits ==
    (last.op = "full" /\ last.outcome = "returned") =>
        \A i \in DOMAIN last.ret : last.ret[i] \notin ShasOf(last.pre)

\* C25: a full ingestion fetches commits only after the repository was
\* registered: when the registration fails otherwise than on the uniqueness
\* conflict, the call makes no listing fetch and no detail fetch and hands
\* back no commit to be analyzed.
C25_NoFetchWithoutRegistration ==
    (last.op = "full" /\ last.reg = "error") =>
        /\ last.listFetches = 0
        /\ last.details = {}
        /\ last.ret = <<>>

\* C28: when the detail fetch or the conversion of a commit fails in an
\* ingestion whose listing and store answer, that commit alone is passed
\* over: every other commit listed upstream is in the store after the call,
\* converted by this call unless the incremental ingestion skipped it as
\* already stored for the repository.
C28_DetailFailureSkipsOneCommit ==
    (/\ last.op \in {"full", "incr"}
     /\ last.in.detailFail # {}
     /\ last.in.badPage = 0
     /\ last.in.clientOk /\ last.in.insertFail = {}) =>
        /\ Range(last.list) \cap last.in.detailFail = {}
        /\ \A sha \in last.up \ last.in.detailFail :
              /\ sha \in ShasOf(commits)
              /\ (last.op = "full" \/ sha \notin ShasOfRepo(last.pre, last.repo)) =>
                    sha \in Range(last.list)

\* C28 witness: of two commits listed, the detail of the first failed and
\* the second was converted and stored by the same call.
C28_Witness ==
    /\ last.op = "full"
    /\ last.up = {1, 2}
    /\ last.in.detailFail = {1}
    /\ last.list = <<2>>
    /\ 2 \in ShasOf(commits) \ ShasOf(last.pre)

\* A full ingestion met a failure other than the repository being
\* registered already: the repository lookup, the registration, a listing
\* page or store_commits failed.
FullIngestionFailed ==
    /\ last.op = "full"
    /\ last.reg # "duplicate_key"
    /\ \/ ~last.in.repoOk
       \/ last.reg = "error"
       \/ last.in.badPage # 0
       \/ last.sc.kind = "error"

\* C29: a full ingestion that fails otherwise than on the repository being
\* registered already returns the empty list, no exception; and when the
\* repository lookup fails the store is left as it was, the repositories
\* table included.
C29_FailedIngestionReturnsEmpty ==
    /\ FullIngestionFailed => (last.outcome = "returned" /\ last.ret = <<>>)
    /\ (last.op = "full" /\ ~last.in.repoOk) =>
          /\ repositories = last.preRepos
          /\ commits = last.pre
          /\ last.reg = "none"

\* C39: when an insert of store_commits fails otherwise than on the unique
\* key during a full ingestion, the ingestion returns the empty list, and
\* the rows of the other commits of the list that had none are in the
\* store after the call: nothing is rolled back, and no commit is handed
\* to the analysis by this call.
C39_StorageErrorReturnsEmptyKeepsRows ==
    (/\ last.op = "full" /\ last.sc.called /\ last.in.clientOk
     /\ last.in.insertFail \cap Range(last.list) # {}) =>
        /\ last.outcome = "returned" /\ last.ret = <<>>
        /\ commits = last.pre \cup
              {[sha |-> s, repo_id |-> last.repo] :
                  s \in (Range(last.list) \ last.in.insertFail) \ ShasOf(last.pre)}

\* C39 witness: of two commits of a full ingestion one insert failed and
\* the other commit's row is new in the store; the call returned nothing.
C39_Witness ==
    /\ last.op = "full" /\ last.sc.called /\ last.in.clientOk
    /\ Len(last.list) = 2
    /\ Cardinality(last.in.insertFail) = 1
    /\ Cardinality(commits \ last.pre) = 1
    /\ last.ret = <<>>

\* C40: a registration made by a full ingestion is in the table when the
\* call ends, whatever became of its commits; no step takes a repository
\* out of the table; and every full ingestion of a registered repository
\* (which resolves the repository and whose registration the store
\* answers) ends with AlreadyAnalyzedRepositoryError.
C40_RegistrationNeverRolledBack ==
    /\ []((last.op = "full" /\ last.reg = "stored") => last.repo \in repositories)
    /\ [][repositories \subseteq repositories']_vars
    /\ [][(/\ last'.op = "full" /\ last'.repo \in repositories
           /\ last'.in.repoOk /\ last'.in.clientOk /\ ~last'.in.regFault) =>
              last'.outcome = "already_analyzed"]_vars

\* C40 witness: a full ingestion was refused for a repository that is
\* registered and whose listed commits have no row in the store.
C40_Witness ==
    /\ last.op = "full" /\ last.outcome = "already_analyzed"
    /\ last.up # {}
    /\ ShasOf(commits) = {}
(* ------------------- properties of the commit analyzer ---------------- *)

\* C5: for every commit with zero files the analysis yields no sub-commit
\* and the generative model is never invoked for that commit, whichever
\* entry point is used (analyze_commit, get_commit_analysis or
\* analyze_commits_batch).
C5_FilelessCommitNeverReachesModel ==
    /\ \A i \in DOMAIN task : filesOf[task[i].sha] = {} => task[i].inv = 0
    /\ req.status = "done" =>
          \A k \in DOMAIN req.ret : filesOf[req.ret[k].commit_sha] # {}

\* C6: every sub-commit that get_commit_analysis(commit) returns, freshly
\* generated or served from the cache, has commit_sha = commit.sha, whatever
\* the model wrote in that field.
C6_ReturnedSubCommitsCarryCommitSha ==
    \A i \in DOMAIN task :
        task[i].pc = "returned" =>
            /\ task[i].result.analysis # <<>>
            /\ \A k \in DOMAIN task[i].result.analysis :
                  task[i].result.analysis[k].commit_sha = task[i].sha

\* C6 witness: of two calls for one commit, one returned a fresh analysis
\* and the other the cached one.
C6_Witness ==
    \E i, j \in DOMAIN task :
        /\ task[i].sha = task[j].sha
        /\ task[i].pc = "returned" /\ ~task[i].hit
        /\ task[j].pc = "returned" /\ task[j].hit

\* C7: when every model call raises, get_commit_analysis on an uncached
\* commit makes exactly retries attempts and then raises: no call starts an
\* attempt beyond the ceiling, a call that met only exceptions does not
\* return a fresh result, and it raises to its caller only after retries
\* attempts, each of which invoked the client once.
C7_RetryCeiling ==
    \A i \in DOMAIN task :
        /\ task[i].attempt <= retries
        /\ (task[i].onlyRaises /\ task[i].inv > 0) =>
              /\ task[i].pc = "returned" => task[i].hit
              /\ task[i].pc = "raised" =>
                    (task[i].attempt = retries /\ task[i].inv = retries)
        /\ (task[i].pc = "raised") => task[i].attempt = retries

\* C7 witness: a call raised to its caller after meeting only exceptions.
C7_Witness ==
    \E i \in DOMAIN task : task[i].pc = "raised" /\ task[i].onlyRaises

\* C8: of two calls of get_commit_analysis for one SHA, the second made
\* after the first returned, the second invokes the commit-analysis client
\* not at all and returns the very object the first returned; a call whose
\* collaborators all answered with usable results invokes the client at
\* most once, so the two calls invoke it at most once in total.
C8_SecondCallServedFromCache ==
    \A i \in DOMAIN task :
        /\ (task[i].clean /\ Settled(task[i])) => task[i].inv <= 1
        /\ (task[i].ord = 2 /\ task[i].afterFirst) =>
              /\ task[i].inv = 0
              /\ task[i].pc # "raised"
              /\ task[i].pc = "returned" =>
                    /\ task[i].result.oid = hist[task[i].sha].firstOid
                    /\ task[i].result = cache[task[i].sha]

\* C8 witness: a second request asked for a commit that the first request
\* had analysed, and it has returned.
C8_Witness ==
    /\ nreq = 2
    /\ req.kind = "get_commit_analysis"
    /\ task[1].ord = 2 /\ task[1].afterFirst /\ task[1].pc = "returned"
    /\ hist[task[1].sha].calls = 2

Count(x, seq) == Cardinality({k \in DOMAIN seq : seq[k] = x})

\* The number of times sub-commit x occurs in the results of the coroutines
\* that returned.
CountInReturned(x) ==
    Cardinality({p \in (DOMAIN task) \X (1..MaxSubs) :
                    /\ task[p[1]].pc = "returned"
                    /\ p[2] \in DOMAIN task[p[1]].result.analysis
                    /\ task[p[1]].result.analysis[p[2]] = x})

\* C9: when some commits of a batch fail after their retries,
\* analyze_commits_batch raises nothing and returns exactly the sub-commits
\* of the commits whose analysis returned: each of them as often as those
\* analyses hold it, and nothing else.
C9_BatchSkipsOnlyFailedCommits ==
    (req.kind = "batch" /\ req.status = "done") =>
        /\ ~req.raised
        /\ \A x \in Range(req.ret) \cup
                    UNION {Range(task[i].result.analysis) : i \in DOMAIN task} :
              Count(x, req.ret) = CountInReturned(x)

\* C9 witness: a batch has returned in which one commit failed and another
\* was analysed.
C9_Witness ==
    /\ req.kind = "batch" /\ req.status = "done"
    /\ \E i, j \in DOMAIN task :
          /\ task[i].pc = "raised"
          /\ task[j].pc = "returned" /\ task[j].result.analysis # <<>>


\* C18: a model result that is None or whose analysis list is empty is never
\* the return value of get_commit_analysis: the attempt that got it fails
\* and is repeated, and a call all of whose attempts ended on an empty
\* result raises at the retry ceiling, after `retries` attempts.
C18_EmptyResultRetriedNeverReturned ==
    \A i \in DOMAIN task :
        /\ (task[i].pc = "returned") =>
              /\ task[i].result # NoResult
              /\ Len(task[i].result.analysis) > 0
        /\ (Settled(task[i]) /\ task[i].onlyEmpty) =>
              /\ task[i].pc = "raised"
              /\ task[i].attempt = retries
              /\ task[i].inv >= retries
        /\ (task[i].onlyEmpty /\ task[i].attempt > 0 /\ task[i].pc = "begin") =>
              task[i].attempt < retries

\* C18 witness: a call raised after every one of its attempts ended on an
\* empty model result.
C18_Witness ==
    \E i \in DOMAIN task :
        task[i].pc = "raised" /\ task[i].onlyEmpty /\ task[i].attempt = retries

\* C19: an attempt is counted as failed only after the fallback model was
\* invoked: no step takes a call whose primary model is answering straight
\* to the end of the attempt (the next attempt, or the final exception).
C19_FallbackInvokedBeforeAttemptFails ==
    [][\A i \in DOMAIN task :
          (i \in DOMAIN task' /\ task[i].pc = "model") =>
              task'[i].pc \notin {"begin", "raised"}]_vars

\* The sub-commits whose file attribution failed in the gather just made:
\* get_subcommit_file_analysis raised, or came back without a result.
FailedAttributions == {k \in DOMAIN svc.results : svc.results[k].kind # "files"}

\* C20: when the file attribution of a sub-commit fails, get_commit_analysis
\* returns in the same attempt and caches what it returns; the failed
\* sub-commit has an empty file list and every other sub-commit the files
\* attributed to it.
C20_FailedAttributionLeavesAnalysisStanding ==
    (svc.op = "file_analysis" /\ FailedAttributions # {}) =>
        \E t \in {task[svc.call]} :
            /\ t.pc = "returned"
            /\ t.attempt = svc.attempt
            /\ cache[t.sha] = t.result
            /\ Len(t.result.analysis) = Len(svc.results)
            /\ \A k \in DOMAIN svc.results :
                  t.result.analysis[k].files =
                      IF k \in FailedAttributions THEN {} ELSE svc.results[k].files

\* C21: the files found by the call launched for sub-commit k are assigned
\* to sub-commit k, in whatever order the calls of the commit finished: in
\* the returned analysis every sub-commit carries the files of its own call,
\* and none when its own call raised.
C21_FilesAssignedByLaunchIndex ==
    (svc.op = "file_analysis" /\ task[svc.call].pc = "returned") =>
        \A k \in DOMAIN svc.results :
            task[svc.call].result.analysis[k].files =
                IF svc.results[k].kind = "files" THEN svc.results[k].files ELSE {}

\* C21 witness: the call for the second sub-commit finished before the call
\* for the first, the two found different files, and the analysis returned.
C21_Witness ==
    /\ svc.op = "file_analysis"
    /\ task[svc.call].pc = "returned"
    /\ svc.order = <<2, 1>>
    /\ svc.results[1].kind = "files"
    /\ svc.results[2].kind = "files"
    /\ svc.results[1].files # svc.results[2].files

\* C22: analyze_commits_batch aggregates only once every get_commit_analysis
\* task it launched has returned or raised, one task per commit; and a task
\* that raised takes no sibling with it: a task that has not settled stays
\* in the group, untouched by the steps of the others, until it settles.
C22_AggregationAfterAllTasksSettled ==
    /\ [](req.kind = "batch" /\ req.status = "done" =>
              /\ Len(task) = Len(req.commits)
              /\ \A i \in DOMAIN task : Settled(task[i]))
    /\ [][\A i \in DOMAIN task :
              (req.kind = "batch" /\ ~Settled(task[i])) =>
                  /\ i \in DOMAIN task'
                  /\ req'.status = "running"
                  /\ \/ task'[i] = task[i]
                     \/ \A j \in DOMAIN task \ {i} : task'[j] = task[j]]_vars

\* C22 witness: a batch of two commits was aggregated after one task raised
\* and its sibling returned an analysis, which is in the list handed back.
C22_Witness ==
    /\ req.kind = "batch" /\ req.status = "done"
    /\ \E i, j \in DOMAIN task :
          /\ task[i].pc = "raised"
          /\ task[j].pc = "returned" /\ ~task[j].hit
          /\ req.ret = task[j].result.analysis

\* C27: a cache entry is written once: no step replaces the entry of a SHA
\* that has one by an analysis other than the one it holds.
C27_CacheEntriesWriteOnce ==
    [][\A s \in Shas :
          cache[s] # NoResult => cache'[s].analysis = cache[s].analysis]_vars

\* C35: of two get_commit_analysis coroutines of one request that are
\* given the same SHA, at most one has called the generation client.
C35_OneInFlightAnalysisInvokesModel ==
    \A i, j \in DOMAIN task :
        (i # j /\ task[i].sha = task[j].sha) =>
            ~(task[i].inv > 0 /\ task[j].inv > 0)

\* C37: every entry of the cache holds a non-empty analysis list whose
\* sub-commits all carry the entry's SHA, and the cache changes only in a
\* step in which a coroutine for that SHA returns that very result: an
\* attempt that raised or got an empty answer leaves the cache as it was.
C37_CacheHoldsStampedNonEmptyResults ==
    /\ [](\A s \in Shas :
            cache[s] # NoResult =>
                /\ Len(cache[s].analysis) > 0
                /\ \A k \in DOMAIN cache[s].analysis : cache[s].analysis[k].commit_sha = s)
    /\ [][\A s \in Shas :
            cache'[s] # cache[s] =>
                \E i \in DOMAIN task :
                    /\ task[i].sha = s
                    /\ task[i].pc # "returned" /\ task'[i].pc = "returned"
                    /\ task'[i].result = cache'[s]]_vars

\* C37 witness: a coroutine returned at its second or later attempt, after
\* a failed one, and its result is the cache entry of its SHA.
C37_Witness ==
    \E i \in DOMAIN task :
        /\ task[i].pc = "returned" /\ task[i].attempt > 1 /\ ~task[i].hit
        /\ cache[task[i].sha] = task[i].result
(* --------------- properties of the /analyze-commits endpoint ---------- *)

\* C2: when store_repo reports a uniqueness conflict, get_repository_commits
\* raises AlreadyAnalyzedRepositoryError before any commit-list or
\* commit-detail fetch, and the analyze-commits request that called it
\* creates no analysis coroutine (so invokes no model), stores nothing and
\* answers with status already_analyzed and analyses_count 0.
C2_DuplicateRegistrationStopsRequest ==
    [][(req' # req /\ req'.kind = "analyze_commits" /\ last'.reg = "duplicate_key") =>
          /\ last'.outcome = "already_analyzed"
          /\ last'.listFetches = 0
          /\ last'.details = {}
          /\ req'.status = "done"
          /\ task' = <<>>
          /\ response' = [status |-> "already_analyzed", analyses_count |-> 0]
          /\ UNCHANGED <<repositories, commits, commit_analyses, collections, cache>>]_vars

\* C2 witness: a second request for a registered repository, whose upstream
\* lists commits, was answered already_analyzed.
C2_Witness ==
    /\ nreq = 2
    /\ req.kind = "analyze_commits" /\ req.status = "done"
    /\ last.reg = "duplicate_key" /\ last.up # {}
    /\ response.status = "already_analyzed"

\* The counts a response carries.
ReportedCounts(resp) ==
    {resp[k] : k \in DOMAIN resp \cap {"analyses_count", "embeddings_count"}}

\* C10: the batch analysis reports a failure count to its caller, equal to
\* the number of commits whose analysis raised: when commits of a request
\* failed in the batch analysis and the request is answered with a summary,
\* one of the counts the summary carries is the number of failed commits.
C10_FailureCountReported ==
    (/\ req.kind = "analyze_commits" /\ req.status = "done"
     /\ req.failed > 0
     /\ response.status \in {"success", "partial_success", "warning"}) =>
        req.failed \in ReportedCounts(response)


\* C12: every row of commit_analyses carries a non-empty commit_sha, and
\* that SHA is the sha of a row of commits (commit rows are never deleted,
\* so the commit row was there when the analysis row was inserted).
C12_StoredAnalysesPointToStoredCommits ==
    \A k \in DOMAIN commit_analyses :
        /\ commit_analyses[k].commit_sha # NoSha
        /\ commit_analyses[k].commit_sha \in ShasOf(commits)

\* C12: the endpoint has stored analyses of two commits.
C12_Witness ==
    /\ req.kind = "analyze_commits" /\ req.status = "done"
    /\ {commit_analyses[k].commit_sha : k \in DOMAIN commit_analyses} = Shas

(* ------------------------ the batch orchestrator ---------------------- *)

\* C11: a list of n commits is cut, for batch size b, into ceil(n/b)
\* consecutive groups, each of b commits except possibly the last; the
\* groups hold the commits of the list in their order, each once; and one
\* get_commit_analysis coroutine is created per commit, n in all.
C11_BatchesPartitionCommits ==
    (req.kind = "analyze_commits" /\ req.status = "running") =>
        LET n == Len(req.commits)
            b == batch_size
            g == Len(batches)
        IN /\ (g - 1) * b < n /\ n <= g * b
           /\ \A k \in 1..g : Len(batches[k]) = IF k < g THEN b ELSE n - (g - 1) * b
           /\ \A k \in 1..g : \A j \in 1..Len(batches[k]) :
                 batches[k][j] = req.commits[(k - 1) * b + j]
           /\ Len(task) = n
           /\ \A i \in 1..n : task[i].sha = req.commits[i]

\* C11: three groups were formed, the last one short.
C11_Witness ==
    /\ req.kind = "analyze_commits" /\ req.status = "running"
    /\ Len(batches) = 3
    /\ Len(batches[3]) < batch_size
    /\ Len(task) = Len(req.commits)

(* --------------------------- the analysis store ----------------------- *)

\* The rows a call of store_commit_analyses added to the table.
AddedRows == SubSeq(commit_analyses, Len(svc.before) + 1, Len(commit_analyses))

StoredShas(table) == {table[k].commit_sha : k \in DOMAIN table}

\* C13: store_commit_analyses adds no row whose commit_sha had a row before
\* the call and removes none; and when the store answered, every analysis
\* passed for a commit without a stored analysis is added, as many rows per
\* commit as analyses were passed for it.
C13_StoreDropsAnalyzedCommitsOnly ==
    (svc.op = "store_commit_analyses") =>
        /\ SubSeq(commit_analyses, 1, Len(svc.before)) = svc.before
        /\ \A k \in DOMAIN AddedRows :
              AddedRows[k].commit_sha \notin StoredShas(svc.before)
        /\ svc.kind = "ok" =>
              \A s \in Shas \ StoredShas(svc.before) :
                  /\ Cardinality({k \in DOMAIN AddedRows : AddedRows[k].commit_sha = s})
                        = Cardinality({k \in DOMAIN svc.analyses :
                                          svc.analyses[k].commit_sha = s})
                  /\ \A k \in DOMAIN svc.analyses :
                        svc.analyses[k].commit_sha = s =>
                            \E j \in DOMAIN AddedRows : AddedRows[j] = svc.analyses[k]

\* C13: a call was passed three analyses, one of a commit that had a
\* stored analysis and two of a commit that had none, and added the two.
C13_Witness ==
    /\ svc.op = "store_commit_analyses" /\ svc.kind = "ok"
    /\ Len(svc.analyses) = 3
    /\ Len(AddedRows) = 2
    /\ AddedRows[1].commit_sha = AddedRows[2].commit_sha
    /\ AddedRows[1] # AddedRows[2]

(* ------------------------------ indexing ------------------------------ *)

\* C14: two different sub-commits that vectorize_subcommit prepared for
\* one collection are given different identifiers.
C14_DocumentIdsDistinct ==
    (svc.op = "populate_collection") =>
        \A i, j \in DOMAIN svc.subcommits :
            (/\ svc.subcommits[i] # svc.subcommits[j]
             /\ svc.ids[i] # NoId /\ svc.ids[j] # NoId) =>
                svc.ids[i] # svc.ids[j]

\* C15: get_k_neighbors(collection, vector, k) returns at most k neighbors,
\* and the identifier of each is the identifier of a document inserted
\* into that collection.
C15_NeighborsAtMostKFromCollection ==
    (svc.op = "get_k_neighbors" /\ svc.kind = "results") =>
        /\ Len(svc.results) <= svc.k
        /\ \A i \in DOMAIN svc.results :
              \E e \in Range(collections[svc.collection]) :
                  svc.results[i].id = Str(e.subcommit_id)

\* C15: a query with k = 1 on a collection of two documents returned one
\* neighbor while the other collection holds a document too.
C15_Witness ==
    /\ svc.op = "get_k_neighbors" /\ svc.kind = "results"
    /\ Len(collections[svc.collection]) = 2
    /\ svc.k = 1 /\ Len(svc.results) = 1
    /\ \E name \in Repos : name # svc.collection /\ collections[name] # <<>>

RECURSIVE InOrder(_, _)

InOrder(tasks, order) ==
    IF order = <<>> THEN <<>>
    ELSE (IF tasks[Head(order)].pc = "returned" THEN tasks[Head(order)].result.analysis
          ELSE <<>>)
         \o InOrder(tasks, Tail(order))

\* The group the task at position i belongs to.
GroupOf(i) == ((i - 1) \div batch_size) + 1

\* The positions of order put group by group from group k on, the order
\* within a group kept.
RECURSIVE ByGroup(_, _)

ByGroup(order, k) ==
    IF k > Len(batches) THEN <<>>
    ELSE SelectSeq(order, LAMBDA i : GroupOf(i) = k) \o ByGroup(order, k + 1)

\* C23 as stated: the combined list holds the analyses group by group and,
\* within a group, in the order in which the commits' analyses completed.
C23_GroupOrderThenCompletionOrder ==
    (req.kind = "analyze_commits" /\ req.status = "done" /\ svc.op = "gather") =>
        req.ret = InOrder(task, ByGroup(svc.order, 1))

\* C23 amended: the tasks of all groups finish in any order, and the
\* combined list holds the analyses group by group and, within a group, in
\* the order of the commits in the list handed in, whatever order they
\* completed in.
C23_GroupOrderThenCommitOrder ==
    (req.kind = "analyze_commits" /\ req.status = "done" /\ svc.op = "gather") =>
        /\ Len(svc.order) = Len(req.commits)
        /\ req.ret = InOrder(task, [i \in 1..Len(req.commits) |-> i])

\* C23 witness: two groups of two commits; the second group's tasks finished
\* before the first group's, each group's second commit before its first,
\* all four returned, and the list was combined.
C23_Witness ==
    /\ req.kind = "analyze_commits" /\ req.status = "done" /\ svc.op = "gather"
    /\ Len(batches) = 2
    /\ svc.order = <<4, 3, 2, 1>>
    /\ req.commits = <<1, 2, 1, 2>>
    /\ \A i \in DOMAIN task : task[i].pc = "returned"

(* ------------------------ concurrent ingestions ------------------------ *)

\* C26: of two full ingestions of one unregistered repository running at
\* once, once both have run their registration exactly one has succeeded
\* and the other has raised AlreadyAnalyzedRepositoryError without a single
\* fetch, so that at most one of them fetches the commits.
C26_OneRegistrationWins ==
    (svc.op = "ingestions" /\ \A c \in Callers : svc.calls[c].reg # "none") =>
        \E w \in Callers :
            /\ svc.calls[w].reg = "stored"
            /\ \A c \in Callers \ {w} :
                  /\ svc.calls[c].pc = "already_analyzed"
                  /\ svc.calls[c].listFetches = 0
                  /\ svc.calls[c].details = {}
                  /\ svc.calls[c].ret = <<>>

(* ---------------------------- batch indexing --------------------------- *)

\* The sub-commits of a populate_collection call for which the embedding
\* call gave nothing: vectorize_subcommit raised before forming an id.
EmbeddingFailed == {i \in DOMAIN svc.ids : svc.ids[i] = NoId}

\* C30: when the embedding call fails for a sub-commit of a
\* populate_collection call, every other sub-commit of the call is in the
\* collection afterwards, and success_count is the number of entries the
\* call put there.
C30_IndexingContinuesPastFailedEmbedding ==
    (svc.op = "populate_collection" /\ EmbeddingFailed # {}) =>
        /\ \A i \in DOMAIN svc.ids \ EmbeddingFailed :
              svc.ids[i] \in IdsOf(collections[svc.collection])
        /\ svc.success_count = Len(collections[svc.collection])

(* ------------------- the batch list under interleaving ----------------- *)

\* C38: whatever way the coroutines of analyze_commits_batch were
\* interleaved, the list returned is fixed by the commits handed in and
\* the outcome of each: the analyses of the coroutines that returned, in
\* the order of their commits in the list.
C38_BatchListFixedByInputOrder ==
    (req.kind = "batch" /\ req.status = "done") =>
        /\ \A i \in DOMAIN task : task[i].sha = req.commits[i]
        /\ req.ret = InOrder(task, [i \in 1..Len(req.commits) |-> i])

\* C38 witness: the second coroutine of a batch was answered by the model
\* and returned before the first one looked into the cache, and the first
\* one's analysis still comes first in the list returned.
C38_Witness ==
    /\ req.kind = "batch" /\ req.status = "done"
    /\ Len(task) = 2
    /\ task[1].pc = "returned" /\ task[1].hit
    /\ task[2].pc = "returned" /\ ~task[2].hit
    /\ req.ret = task[1].result.analysis \o task[2].result.analysis

(* ------------------------------ termination ---------------------------- *)

\* C24: every commit of a batch comes to rest, analyzed or failed for good,
\* within `retries` attempts, and the batch call then returns: without an
\* exception, and with the analyses of the commits that were analyzed, the
\* failed ones left out.
C24_BatchTerminatesSkippingFailures ==
    (req.kind = "batch" /\ req.status = "running")
        ~> (/\ req.kind = "batch" /\ req.status = "done" /\ ~req.raised
            /\ \A i \in DOMAIN task :
                  /\ Settled(task[i])
                  /\ task[i].attempt <= retries
            /\ req.ret = InOrder(task, [i \in DOMAIN task |-> i]))

\* C24 witness: a batch of two commits returned with the first commit
\* failed for good after `retries` attempts and only the second commit's
\* analysis in the list.
C24_Witness ==
    /\ req.kind = "batch" /\ req.status = "done" /\ ~req.raised
    /\ Len(task) = 2
    /\ task[1].pc = "raised" /\ task[1].attempt = retries
    /\ task[2].pc = "returned"
    /\ req.ret = task[2].result.analysis
    /\ req.ret # <<>>

(* --------------------------- query properties ------------------------- *)

\* C31: a query_commits call whose neighbor search found no neighbor
\* returns its response (status success) and has never asked the
\* generative model.
C31_NoNeighborNoModelCall ==
    (svc.op = "query_commits" /\ svc.retrieved /\ svc.neighbors = <<>>) =>
        /\ svc.model_calls = 0
        /\ svc.response.status = "success"

\* C31 witness: a query asking for at least one neighbor of an empty
\* collection has returned.
C31_Witness ==
    /\ svc.op = "query_commits" /\ svc.retrieved /\ svc.neighbors = <<>>
    /\ svc.k >= 1
    /\ collections[svc.collection] = <<>>

\* C32: when the synthesis raised after neighbors were retrieved, the
\* query_commits call answers with status error (not with status 500) and
\* lists the identifier of every retrieved neighbor, in their order.
C32_SynthesisFailureKeepsNeighborIds ==
    (svc.op = "query_commits" /\ svc.synthesis = "raise") =>
        /\ svc.neighbors # <<>>
        /\ svc.response.status = "error"
        /\ DOMAIN svc.response.subcommits_ids = DOMAIN svc.neighbors
        /\ \A i \in DOMAIN svc.neighbors :
              svc.response.subcommits_ids[i].v = svc.neighbors[i].id.v

\* C32 witness: the synthesis raised over two retrieved neighbors.
C32_Witness ==
    /\ svc.op = "query_commits" /\ svc.synthesis = "raise"
    /\ Len(svc.neighbors) = 2

\* C33: whenever query_commits asks the generative model, it has looked up
\* every retrieved neighbor in the analysis store before.
C33_NeighborsHydratedBeforeSynthesis ==
    (svc.op = "query_commits" /\ svc.model_calls > 0) =>
        svc.store_lookups = Len(svc.neighbors)

(* -------------------- incremental analysis properties ----------------- *)

\* C34: every commit get_new_repository_commits returned to an
\* update_analysis call as new is among the commits the call submitted to
\* analyze_commits_batch.
C34_EveryNewCommitSubmitted ==
    (svc.op = "updates") =>
        \A c \in Callers :
            svc.calls[c].pc \in {"analyzing", "returned"} =>
                Range(svc.calls[c].new) \subseteq Range(svc.calls[c].submitted)

\* The rows of a list of analyses that belong to commit s.
AnalysesOf(rows, s) == SelectSeq(rows, LAMBDA a : a.commit_sha = s)

\* C36: while and after two update_analysis requests for one repository
\* run, the rows commit_analyses holds for a commit are the rows one of the
\* two requests inserted for it, and the other request inserted none.
C36_AnalysesOfACommitFromOneRequest ==
    (svc.op = "updates") =>
        \A s \in Shas :
            \E c \in Callers :
                /\ AnalysesOf(commit_analyses, s) = AnalysesOf(svc.calls[c].inserted, s)
                /\ \A d \in Callers \ {c} : AnalysesOf(svc.calls[d].inserted, s) = <<>>

\* C36 witness: both requests analysed commit 1 and had their analyses
\* accepted by the store, each having read the stored SHAs before the other
\* stored the commit; the rows are those of the first.
C36_Witness ==
    /\ svc.op = "updates"
    /\ \A c \in Callers :
          /\ svc.calls[c].pc = "returned"
          /\ svc.calls[c].skip = {}
          /\ AnalysesOf(svc.calls[c].all_analyses, 1) # <<>>
          /\ svc.calls[c].response.status = "success"
    /\ svc.calls[1].inserted # <<>>
    /\ svc.calls[2].inserted = <<>>
====
